---- MODULE Spec2Model ----
(***************************************************************************)
(* Verification engine of algo-atlas: the orchestrator run_test_cases /    *)
(* verify_solution (core/verifier.py), run_test_case of the core verifier  *)
(* and of the Python, JavaScript and TypeScript adapters, the guarded call *)
(* _run_with_timeout in its two strategies, the test-input parser and the  *)
(* result comparator _compare_results.                                     *)
(*                                                                         *)
(* Python values are tagged records, texts are tuples of one-character     *)
(* strings, and a candidate solution is a record of the facts the engine   *)
(* observes about it (what ast.parse finds in it, what exec, the           *)
(* constructor and the entry point do when they are run).                  *)
(***************************************************************************)
EXTENDS Integers, Sequences, FiniteSets, TLC

VARIABLES
    pc,               \* position in run_test_cases / in the single call
    code,             \* the candidate solution source (observable facts)
    platform,         \* sys.platform: "unix" (signal.alarm) or "win32" (thread)
    adapter,          \* whose run_test_case is called
    timeout,          \* execution timeout in seconds
    examples,         \* parsed examples: records with input / output texts
    test_cases,       \* raw supplementary test-case lines
    expected_outputs, \* expected outputs of the supplementary cases
    result,           \* the VerificationResult under construction
    tested_inputs,    \* dedup keys seen so far
    idx,              \* loop index of the current for loop (1-based)
    input_args,       \* arguments of the current test
    expected,         \* expected output of the current test
    outcome,          \* how the last run_test_case call ended
    cmp_expected,     \* _compare_results: first argument
    cmp_actual,       \* _compare_results: second argument
    cmp_result,       \* _compare_results: returned value
    parse_values,     \* parser: the value texts a test-input block is made of
    parse_text,       \* parser: the text handed to the parsing function
    parse_result,     \* parser: what the parsing function gave back
    _registry,        \* languages._registry: pairs <<slug, adapter>>
    calls,            \* registry: the calls made on the module so far
    returned,         \* registry: what the last call returned or raised
    source,           \* entry point: the Python source, as ast.parse sees it
    method_name,      \* entry point: what extract_method_name returned
    param_count,      \* entry point: what count_method_params returned (an int)
    behaviour,        \* guarded call: what the callable does when it is run
    alarm,            \* guarded call: a SIGALRM countdown is armed
    handler,          \* guarded call: the handler installed for SIGALRM
    old_handler,      \* guarded call: local old_handler of _run_with_timeout_unix
    pending,          \* guarded call: what the try block ended with
    guarded,          \* guarded call: how _run_with_timeout was left
    workers,          \* worker threads: one record per thread started
    queues,           \* worker threads: the result / exception queues
    reports,          \* worker threads: how each guarded call was left
    tool,             \* shell-out: the adapter operation called
    tool_run,         \* shell-out: what happens to the tool in this call
    tool_result,      \* shell-out: what the call returned or raised
    tmp_exists,       \* shell-out: the transient source file exists
    top_level_ran,    \* shell-out: the candidate's top-level statements were run
    workflow,         \* cli: the workflow that verifies, and what its user answers
    verified,         \* cli: what verify_solution_with_progress returned
    issues_reported,  \* cli: the workflow reported verification issues
    batch_args,       \* cli: the parsed command line of run_batch
    batch_items,      \* cli: the items of the batch file, by what processing does
    batch_results,    \* cli: local results of run_batch
    summary           \* cli: the counts display_batch_summary logged

vars == <<pc, code, platform, adapter, timeout, examples, test_cases,
          expected_outputs, result, tested_inputs, idx, input_args, expected,
          outcome, cmp_expected, cmp_actual, cmp_result,
          parse_values, parse_text, parse_result, _registry, calls, returned,
          source, method_name, param_count,
          behaviour, alarm, handler, old_handler, pending, guarded,
          workers, queues, reports,
          tool, tool_run, tool_result, tmp_exists, top_level_ran,
          workflow, verified, issues_reported, batch_args, batch_items,
          batch_results, summary>>

---------------------------------------------------------------------------
(* Bounds of the model.                                                    *)

MaxExamples == 1
MaxLines == 2
MaxOutputs == 2

---------------------------------------------------------------------------
(* Python values.                                                          *)

None == [t |-> "none"]
PyInt(n) == [t |-> "int", n |-> n]
PyStr(cs) == [t |-> "str", chars |-> cs]
PyList(xs) == [t |-> "list", items |-> xs]
PyTuple(xs) == [t |-> "tuple", items |-> xs]
PyBytes(cs) == [t |-> "bytes", chars |-> cs]
PySet(xs) == [t |-> "set", items |-> xs]
PyDict == [t |-> "dict"]

\* an exception that leaves a parser: the call has no value
Raised(exc) == [t |-> "raise", exc |-> exc]

IsList(v) == v.t = "list"

---------------------------------------------------------------------------
(* Texts: tuples of one-character strings.                                 *)

\* the characters of the model's texts, in code-point order
Alphabet == <<"\n", " ", "\"", ",", "0", "1", "2", "3", "4", "5", "6", "7", "8", "9",
              "=", "[", "]", "a", "b", "x", "{", "}">>

IsSpace(c) == c \in {" ", "\n"}

RECURSIVE lstrip(_)
lstrip(s) ==
    IF s # <<>> /\ IsSpace(Head(s)) THEN lstrip(Tail(s)) ELSE s

RECURSIVE rstrip(_)
rstrip(s) ==
    IF s # <<>> /\ IsSpace(s[Len(s)]) THEN rstrip(SubSeq(s, 1, Len(s) - 1)) ELSE s

\* str.strip()
strip(s) == rstrip(lstrip(s))

\* str.split(sep) for a one-character separator: always at least one part
RECURSIVE split(_, _)
split(s, sep) ==
    IF \A k \in 1..Len(s) : s[k] # sep THEN <<s>>
    ELSE LET k == CHOOSE j \in 1..Len(s) :
                      s[j] = sep /\ \A m \in 1..(j - 1) : s[m] # sep
         IN <<SubSeq(s, 1, k - 1)>> \o split(SubSeq(s, k + 1, Len(s)), sep)

\* sep.join(parts)
RECURSIVE join(_, _)
join(sep, parts) ==
    IF parts = <<>> THEN <<>>
    ELSE IF Len(parts) = 1 THEN parts[1]
    ELSE parts[1] \o sep \o join(sep, Tail(parts))

Digits == <<"0", "1", "2", "3", "4", "5", "6", "7", "8", "9">>

IsDigit(c) == \E d \in 1..10 : Digits[d] = c

DigitValue(c) == (CHOOSE d \in 1..10 : Digits[d] = c) - 1

RECURSIVE DecimalValue(_)
DecimalValue(s) ==
    IF s = <<>> THEN 0
    ELSE 10 * DecimalValue(SubSeq(s, 1, Len(s) - 1)) + DigitValue(s[Len(s)])

\* str(n) of a non-negative int
RECURSIVE DecimalText(_)
DecimalText(n) ==
    IF n < 10 THEN <<Digits[n + 1]>>
    ELSE DecimalText(n \div 10) \o <<Digits[(n % 10) + 1]>>

Letters == {"a", "b", "x"}

\* number of quote characters among the first k characters of s
RECURSIVE QuoteCount(_, _)
QuoteCount(s, k) ==
    IF k = 0 THEN 0
    ELSE QuoteCount(s, k - 1) + (IF s[k] = "\"" THEN 1 ELSE 0)

\* character k of s is outside every string literal
IsCode(s, k) == s[k] # "\"" /\ QuoteCount(s, k) % 2 = 0

\* bracket depth after each prefix of s, brackets inside strings not counted
RECURSIVE Depth(_, _)
Depth(s, k) ==
    IF k = 0 THEN 0
    ELSE Depth(s, k - 1)
         + (IF ~IsCode(s, k) THEN 0
            ELSE IF s[k] \in {"[", "{"} THEN 1
            ELSE IF s[k] \in {"]", "}"} THEN -1 ELSE 0)

\* the brackets of s from position k on close the open ones in stack, each
\* with its own kind
RECURSIVE Nesting(_, _, _)
Nesting(s, k, stack) ==
    IF k > Len(s) THEN stack = <<>>
    ELSE IF IsCode(s, k) /\ s[k] \in {"[", "{"} THEN Nesting(s, k + 1, <<s[k]>> \o stack)
    ELSE IF IsCode(s, k) /\ s[k] \in {"]", "}"}
    THEN /\ stack # <<>>
         /\ Head(stack) = (IF s[k] = "]" THEN "[" ELSE "{")
         /\ Nesting(s, k + 1, Tail(stack))
    ELSE Nesting(s, k + 1, stack)

\* every string literal of s is closed on its line, every bracket matched
WellFormed(s) ==
    /\ QuoteCount(s, Len(s)) % 2 = 0
    /\ \A k \in 1..Len(s) : s[k] = "\n" => QuoteCount(s, k) % 2 = 0
    /\ Nesting(s, 1, <<>>)

\* s is one bracketed text: opened by its first character, closed by its last
IsBracketed(s) ==
    /\ Len(s) >= 2
    /\ s[1] \in {"[", "{"}
    /\ Depth(s, Len(s)) = 0
    /\ \A k \in 1..(Len(s) - 1) : Depth(s, k) >= 1

\* positions of the commas of s that are outside every bracket and string
TopCommas(s) == {k \in 1..Len(s) : s[k] = "," /\ IsCode(s, k) /\ Depth(s, k) = 0}

\* the parts of s between its top-level commas
RECURSIVE SplitTop(_)
SplitTop(s) ==
    IF TopCommas(s) = {} THEN <<s>>
    ELSE LET k == CHOOSE j \in TopCommas(s) : \A m \in TopCommas(s) : j <= m
         IN <<SubSeq(s, 1, k - 1)>> \o SplitTop(SubSeq(s, k + 1, Len(s)))

\* s as a run of string literals "..." (b"..." for bytes) with blanks between
\* them (line ends too when nested in brackets): the concatenated characters,
\* the kinds met and the number of literals
RECURSIVE StrSeq(_, _)
StrSeq(s, nested) ==
    IF s = <<>> THEN [ok |-> TRUE, chars |-> <<>>, kinds |-> {}, count |-> 0]
    ELSE IF s[1] = " " \/ (nested /\ s[1] = "\n") THEN StrSeq(Tail(s), nested)
    ELSE LET bytes == s[1] = "b"
             body == IF bytes THEN Tail(s) ELSE s
             closing == {j \in 2..Len(body) : body[j] = "\""}
         IN IF body = <<>> \/ body[1] # "\"" \/ closing = {}
            THEN [ok |-> FALSE, chars |-> <<>>, kinds |-> {}, count |-> 0]
            ELSE LET j == CHOOSE c \in closing : \A m \in closing : c <= m
                     rest == StrSeq(SubSeq(body, j + 1, Len(body)), nested)
                 IN [ok |-> rest.ok /\ \A m \in 2..(j - 1) : body[m] # "\n",
                     chars |-> SubSeq(body, 2, j - 1) \o rest.chars,
                     kinds |-> {IF bytes THEN "bytes" ELSE "str"} \cup rest.kinds,
                     count |-> 1 + rest.count]

\* Outcome of a literal parse: a value, or an error: "syntax" (JSONDecodeError
\* / SyntaxError), "value" (ValueError: a well-formed expression that is no
\* literal, such as a name) or "type" (TypeError: an unhashable set element).
\* A set hashes each element as soon as it is converted.
ParseError(kind) == [ok |-> FALSE, value |-> None, err |-> kind]
ParseFail == ParseError("syntax")
ParseOk(v) == [ok |-> TRUE, value |-> v, err |-> "none"]

Unhashable(v) == v.t \in {"list", "dict", "set"}

\* The literal grammar of json.loads and ast.literal_eval over the characters
\* of the model: non-negative ints, strings, lists and the empty object for
\* both; permissive adds what only literal_eval takes: a trailing comma, a
\* bare tuple, an all-zero int such as "00", adjacent string literals, bytes
\* literals and sets. Elements are converted from left to right, so the
\* first ValueError or TypeError met is the one raised; a SyntaxError
\* anywhere comes before both.
RECURSIVE Literal(_, _, _)
Literal(s, permissive, nested) ==
    LET Elements(parts, hashed) ==
            LET kept == IF permissive /\ Len(parts) > 1
                           /\ strip(parts[Len(parts)]) = <<>>
                        THEN SubSeq(parts, 1, Len(parts) - 1) ELSE parts
                parsed == [k \in 1..Len(kept) |-> Literal(strip(kept[k]), permissive, TRUE)]
                each == [k \in 1..Len(kept) |->
                            IF parsed[k].ok /\ hashed /\ Unhashable(parsed[k].value)
                            THEN ParseError("type") ELSE parsed[k]]
                bad == {k \in 1..Len(kept) : ~each[k].ok}
            IN IF \E k \in bad : each[k].err = "syntax" THEN ParseFail
               ELSE IF bad # {} THEN each[CHOOSE k \in bad : \A m \in bad : k <= m]
               ELSE ParseOk([k \in 1..Len(kept) |-> each[k].value])
        Sequence(parts, hashed, Make(_)) ==
            LET es == Elements(parts, hashed)
            IN IF es.ok THEN ParseOk(Make(es.value)) ELSE es
        MakeSet(xs) == PySet({xs[k] : k \in 1..Len(xs)})
    IN IF s = <<>> THEN ParseFail
       ELSE IF permissive /\ ~nested
               /\ \E k \in 1..Len(s) : s[k] = "\n" /\ IsCode(s, k) /\ Depth(s, k) = 0
       THEN ParseFail
       ELSE IF \A k \in 1..Len(s) : IsDigit(s[k])
       THEN IF Len(s) = 1 \/ s[1] # "0" THEN ParseOk(PyInt(DecimalValue(s)))
            ELSE IF permissive /\ \A k \in 1..Len(s) : s[k] = "0"
            THEN ParseOk(PyInt(0))
            ELSE ParseFail
       ELSE IF s[1] \in Letters /\ \A k \in 1..Len(s) : s[k] \in Letters \/ IsDigit(s[k])
       THEN IF permissive THEN ParseError("value") ELSE ParseFail
       ELSE IF TopCommas(s) = {}
               /\ (s[1] = "\"" \/ (Len(s) >= 2 /\ s[1] = "b" /\ s[2] = "\""))
       THEN LET r == StrSeq(s, nested)
            IN IF ~r.ok THEN ParseFail
               ELSE IF r.kinds = {"str"} /\ (permissive \/ r.count = 1)
               THEN ParseOk(PyStr(r.chars))
               ELSE IF r.kinds = {"bytes"} /\ permissive THEN ParseOk(PyBytes(r.chars))
               ELSE ParseFail
       ELSE IF IsBracketed(s)
       THEN LET inner == SubSeq(s, 2, Len(s) - 1)
            IN IF s[1] = "["
               THEN IF strip(inner) = <<>> THEN ParseOk(PyList(<<>>))
                    ELSE Sequence(SplitTop(inner), FALSE, PyList)
               ELSE IF strip(inner) = <<>> THEN ParseOk(PyDict)
               ELSE IF permissive THEN Sequence(SplitTop(inner), TRUE, MakeSet)
               ELSE ParseFail
       ELSE IF permissive /\ ~nested /\ TopCommas(s) # {}
       THEN Sequence(SplitTop(s), FALSE, PyTuple)
       ELSE ParseFail

ParseLiteral(s, permissive) ==
    IF WellFormed(s) THEN Literal(s, permissive, FALSE) ELSE ParseFail

\* json.loads: a value, or JSONDecodeError (ok = FALSE)
json_loads(s) == ParseLiteral(strip(s), FALSE)

\* ast.literal_eval: a value, or ValueError / SyntaxError / TypeError (ok = FALSE)
literal_eval(s) == ParseLiteral(strip(s), TRUE)

\* repr() of a value; str() of a list is its repr
RECURSIVE repr(_)
repr(v) ==
    LET Items(xs) == join(<<",", " ">>, [k \in 1..Len(xs) |-> repr(xs[k])])
        Escaped(cs) == join(<<>>, [k \in 1..Len(cs) |->
                           IF cs[k] = "\n" THEN <<"\\", "n">> ELSE <<cs[k]>>])
    IN CASE v.t = "none" -> <<"N", "o", "n", "e">>
         [] v.t = "int" -> DecimalText(v.n)
         [] v.t = "str" -> <<"'">> \o Escaped(v.chars) \o <<"'">>
         [] v.t = "bytes" -> <<"b", "'">> \o Escaped(v.chars) \o <<"'">>
         [] v.t = "dict" -> <<"{", "}">>
         [] v.t = "list" -> <<"[">> \o Items(v.items) \o <<"]">>
         [] v.t = "tuple" ->
                IF Len(v.items) = 1 THEN <<"(">> \o repr(v.items[1]) \o <<",", ")">>
                ELSE <<"(">> \o Items(v.items) \o <<")">>

---------------------------------------------------------------------------
(* Test-input parsing of the orchestrator (core/verifier.py).              *)

\* json.loads, then ast.literal_eval, then the raw text; the handlers
\* catch JSONDecodeError, ValueError and SyntaxError, a TypeError leaves the
\* parser
ParseToken(s) ==
    IF json_loads(s).ok THEN json_loads(s).value
    ELSE IF literal_eval(s).ok THEN literal_eval(s).value
    ELSE IF literal_eval(s).err = "type" THEN Raised("TypeError")
    ELSE PyStr(s)

\* the call that was to return args raised instead: one of the tokens did
ArgsRaised(args) == \E k \in 1..Len(args) : args[k].t = "raise"

\* verifier._parse_test_input: one argument per non-blank line
_parse_test_input(input_str) ==
    LET lines == split(strip(input_str), "\n")
        stripped == [k \in 1..Len(lines) |-> strip(lines[k])]
        kept == SelectSeq(stripped, LAMBDA line : line # <<>>)
    IN [k \in 1..Len(kept) |-> ParseToken(kept[k])]

\* verifier._parse_expected_output: the whole text as one value
_parse_expected_output(output_str) == ParseToken(strip(output_str))

\* str(input_args): the dedup key
input_key(args) == repr(PyList(args))

---------------------------------------------------------------------------
(* Test-input parsing of core/test_parser.py.                              *)

\* test_parser._split_leetcode_input: split at the commas met at depth 0,
\* the depth counted over every bracket character, whatever its kind and
\* wherever it stands
RECURSIVE SplitFrom(_, _, _)
SplitFrom(rest, depth, current) ==
    IF rest = <<>> THEN IF current # <<>> THEN <<current>> ELSE <<>>
    ELSE IF Head(rest) \in {"[", "{"}
    THEN SplitFrom(Tail(rest), depth + 1, Append(current, Head(rest)))
    ELSE IF Head(rest) \in {"]", "}"}
    THEN SplitFrom(Tail(rest), depth - 1, Append(current, Head(rest)))
    ELSE IF Head(rest) = "," /\ depth = 0
    THEN <<current>> \o SplitFrom(Tail(rest), depth, <<>>)
    ELSE SplitFrom(Tail(rest), depth, Append(current, Head(rest)))

_split_leetcode_input(input_str) == SplitFrom(input_str, 0, <<>>)

\* test_parser._parse_single_value
_parse_single_value(value) == ParseToken(strip(value))

Contains(s, c) == \E k \in 1..Len(s) : s[k] = c

\* part.split("=", 1)[1]
AfterEquals(part) ==
    LET k == CHOOSE j \in 1..Len(part) :
                 part[j] = "=" /\ \A m \in 1..(j - 1) : part[m] # "="
    IN SubSeq(part, k + 1, Len(part))

\* the block is in the assignment-list dialect
IsAssignmentList(s) == Contains(s, "=") /\ ~(s # <<>> /\ s[1] = "[")

\* test_parser._parse_test_input
test_parser_parse_test_input(input_str) ==
    LET s == strip(input_str)
    IN IF IsAssignmentList(s)
       THEN LET parts == _split_leetcode_input(s)
                stripped == [k \in 1..Len(parts) |-> strip(parts[k])]
                kept == SelectSeq(stripped, LAMBDA part : Contains(part, "="))
            IN [k \in 1..Len(kept) |-> _parse_single_value(strip(AfterEquals(kept[k])))]
       ELSE LET lines == split(s, "\n")
                stripped == [k \in 1..Len(lines) |-> strip(lines[k])]
                kept == SelectSeq(stripped, LAMBDA line : line # <<>>)
            IN [k \in 1..Len(kept) |-> _parse_single_value(kept[k])]

\* test_parser._parse_expected_output
test_parser_parse_expected_output(output_str) == ParseToken(strip(output_str))

---------------------------------------------------------------------------
(* Result comparator (core/verifier.py).                                   *)

\* a < b of two values: "lt", "eq", "gt", or "err" for TypeError
RECURSIVE PyCompare(_, _)
PyCompare(a, b) ==
    LET Lex(xs, ys) ==
            LET n == IF Len(xs) < Len(ys) THEN Len(xs) ELSE Len(ys)
                diff == {k \in 1..n : xs[k] # ys[k]}
            IN IF diff = {}
               THEN IF Len(xs) < Len(ys) THEN "lt"
                    ELSE IF Len(xs) > Len(ys) THEN "gt" ELSE "eq"
               ELSE LET k == CHOOSE j \in diff : \A m \in diff : j <= m
                    IN PyCompare(xs[k], ys[k])
        CodePoint(c) == CHOOSE k \in 1..Len(Alphabet) : Alphabet[k] = c
    IN IF a.t # b.t \/ a.t = "none" THEN "err"
       ELSE IF a.t = "int"
       THEN IF a.n < b.n THEN "lt" ELSE IF a.n > b.n THEN "gt" ELSE "eq"
       ELSE IF a.t = "str"
       THEN Lex([k \in 1..Len(a.chars) |-> PyInt(CodePoint(a.chars[k]))],
                [k \in 1..Len(b.chars) |-> PyInt(CodePoint(b.chars[k]))])
       ELSE Lex(a.items, b.items)

\* sorted(xs): the sorted list, or TypeError (ok = FALSE) when two of the
\* elements cannot be ordered
RECURSIVE InsertSorted(_, _)
InsertSorted(x, ys) ==
    IF ys = <<>> THEN <<x>>
    ELSE IF PyCompare(x, ys[1]) = "lt" THEN <<x>> \o ys
    ELSE <<ys[1]>> \o InsertSorted(x, Tail(ys))

RECURSIVE SortItems(_)
SortItems(xs) ==
    IF xs = <<>> THEN <<>> ELSE InsertSorted(xs[Len(xs)], SortItems(SubSeq(xs, 1, Len(xs) - 1)))

sorted(xs) ==
    IF \E j, k \in 1..Len(xs) : j # k /\ PyCompare(xs[j], xs[k]) = "err"
    THEN [ok |-> FALSE, items |-> <<>>]
    ELSE [ok |-> TRUE, items |-> SortItems(xs)]

\* the elements of a sequence value: the items of a list or tuple, the
\* one-character strings of a str
Elems(v) ==
    IF v.t = "str" THEN [k \in 1..Len(v.chars) |-> PyStr(<<v.chars[k]>>)] ELSE v.items

IsSequence(v) == v.t \in {"list", "tuple", "str"}

\* faulty variant: the relaxation is applied to every pair of sequences
\* (isinstance(x, (list, tuple, str))), not to pairs of lists only
_compare_results_any_sequence(exp, act) ==
    IF exp = act THEN TRUE
    ELSE IF IsSequence(exp) /\ IsSequence(act)
    THEN IF Len(Elems(exp)) # Len(Elems(act)) THEN FALSE
         ELSE IF sorted(Elems(exp)).ok /\ sorted(Elems(act)).ok
                 /\ sorted(Elems(exp)).items = sorted(Elems(act)).items
         THEN TRUE
         ELSE FALSE
    ELSE FALSE

\* verifier._compare_results
_compare_results(exp, act) ==
    IF exp = act THEN TRUE
    ELSE IF IsList(exp) /\ IsList(act)
    THEN IF Len(exp.items) # Len(act.items) THEN FALSE
         ELSE IF sorted(exp.items).ok /\ sorted(act.items).ok
                 /\ sorted(exp.items).items = sorted(act.items).items
         THEN TRUE
         ELSE FALSE
    ELSE FALSE

---------------------------------------------------------------------------
(* Results.                                                                *)

\* an error text; str(e) of an exception raised without a message is ""
ErrorText(text) == [t |-> "msg", text |-> text]

\* f"Execution timed out after {timeout}s"
TimeoutText(T) ==
    [t |-> "msg", text |-> "Execution timed out after {timeout}s", timeout |-> T]

TestResult(passed, args, exp, actual, error) ==
    [passed |-> passed, input_args |-> args, expected |-> exp,
     actual |-> actual, error |-> error]

VerificationResult(syntax_valid, syntax_error) ==
    [syntax_valid |-> syntax_valid, syntax_error |-> syntax_error,
     tests_run |-> 0, tests_passed |-> 0, test_results |-> <<>>]

\* faulty variant: a report without tests counts as all passed
all_passed_vacuous(r) ==
    r.syntax_valid /\ r.tests_passed = r.tests_run

all_passed(r) ==
    r.syntax_valid /\ r.tests_run > 0 /\ r.tests_passed = r.tests_run

---------------------------------------------------------------------------
(* The candidate solution and its environment.                             *)

execution_timeout == 5

MaxParams == 2

Platforms == {"unix", "win32"}

Adapters == {"core", "python", "javascript", "typescript"}

\* What the engine can observe of a source text.
\*   syntax_valid  ast.parse accepts it
\*   has_method    the AST holds class Solution with a public method (for
\*                 JavaScript / TypeScript: a function pattern matches)
\*   params        declared parameters of that method, self not counted
\*   top_level     what exec of the source does: "defines" Solution, ends
\*                 with "no_class", "raises" an Exception, "exits" (raises
\*                 SystemExit, a BaseException) or "hangs";
\*                 "defines_prebound": it defines Solution provided the
\*                 names List, Dict, Optional, ... its annotations use
\*                 without importing them are bound
\*   ctor          what Solution() does: "ok", "raises", "exits", "hangs"
Code(syntax_valid, has_method, params, top_level, ctor) ==
    [syntax_valid |-> syntax_valid, has_method |-> has_method,
     params |-> params, top_level |-> top_level, ctor |-> ctor]

CodeSet ==
    {Code(FALSE, FALSE, 0, "raises", "ok")}
    \cup {Code(TRUE, TRUE, 1, tl, "ok") :
            tl \in {"no_class", "raises", "exits", "hangs", "defines_prebound"}}
    \cup {Code(TRUE, FALSE, 0, "defines", "ok")}
    \cup {Code(TRUE, TRUE, 1, "defines", ct) : ct \in {"raises", "exits", "hangs"}}
    \cup {Code(TRUE, TRUE, n, "defines", "ok") : n \in 0..MaxParams}

\* What one invocation of the entry point does.
\*   returns   returns value before the deadline
\*   raises    raises an Exception whose str() is message
\*   exits     raises SystemExit
\*   returns_prebound  returns value after using defaultdict, deque, inf, ...
\*             without importing them
\*   slow      is still running at the deadline; on_alarm says what it does
\*             with the TimeoutError the alarm handler raises inside it:
\*             "propagates" it, "returns" value after catching it, or
\*             "hangs" after catching it
Behaviour(b, value, message, on_alarm) ==
    [b |-> b, value |-> value, message |-> message, on_alarm |-> on_alarm]

ReturnValues == {PyInt(1)}

MethodBehaviours ==
    {Behaviour("returns", v, "", "none") : v \in ReturnValues}
    \cup {Behaviour("raises", None, m, "none") : m \in {"", "boom"}}
    \cup {Behaviour("exits", None, "", "none")}
    \cup {Behaviour("returns_prebound", v, "", "none") : v \in ReturnValues}
    \cup {Behaviour("slow", None, "", a) : a \in {"propagates", "hangs"}}
    \cup {Behaviour("slow", v, "", "returns") : v \in ReturnValues}

---------------------------------------------------------------------------
(* Guarded call (timeout executor).                                        *)

\* how a guarded call ends: kind is "value", "exception" (an Exception of the
\* callable), "exit" (a BaseException of the callable), "timeout" (the
\* module's TimeoutError) or "hang"; late: the deadline had passed; failed:
\* the callable ended by raising
Guarded(kind, value, message, late, failed) ==
    [kind |-> kind, value |-> value, message |-> message, late |-> late,
     failed |-> failed]

\* _run_with_timeout_unix: the callable runs in the calling thread and the
\* alarm handler raises TimeoutError inside it at the deadline
_run_with_timeout_unix(b) ==
    CASE b.b = "returns" -> Guarded("value", b.value, "", FALSE, FALSE)
      [] b.b = "raises" -> Guarded("exception", None, b.message, FALSE, TRUE)
      [] b.b = "exits" -> Guarded("exit", None, "", FALSE, TRUE)
      [] b.b = "slow" /\ b.on_alarm = "propagates" -> Guarded("timeout", None, "", TRUE, FALSE)
      [] b.b = "slow" /\ b.on_alarm = "returns" -> Guarded("value", b.value, "", TRUE, FALSE)
      [] b.b = "slow" /\ b.on_alarm = "hangs" -> Guarded("hang", None, "", TRUE, FALSE)

\* _run_with_timeout_windows: the callable runs in a worker thread whose
\* wrapper catches Exception only; the caller joins for timeout seconds
_run_with_timeout_windows(b) ==
    CASE b.b = "returns" -> Guarded("value", b.value, "", FALSE, FALSE)
      [] b.b = "raises" -> Guarded("exception", None, b.message, FALSE, TRUE)
      [] b.b = "exits" -> Guarded("value", None, "", FALSE, TRUE)
      [] b.b = "slow" -> Guarded("timeout", None, "", TRUE, FALSE)

_run_with_timeout(plat, b) ==
    IF plat = "win32" THEN _run_with_timeout_windows(b) ELSE _run_with_timeout_unix(b)

---------------------------------------------------------------------------
(* run_test_case of the core verifier and of the adapters.                 *)

\* how a run_test_case call ends: kind "return" with test_result, "raise"
\* (an exception leaves the call) or "hang" (the call never returns);
\* raised_in: the phase in which candidate code raised ("none", "exec",
\* "ctor", "call"); late: the guarded call missed its deadline
Outcome(kind, test_result, raised_in, late) ==
    [kind |-> kind, test_result |-> test_result, raised_in |-> raised_in,
     late |-> late]

NoOutcome == Outcome("none", None, "none", FALSE)

\* faulty variant: passed is computed by the comparator even when the call
\* failed
FailedResult_compared(args, exp, error) ==
    TestResult(_compare_results(exp, None), args, exp, None, error)

\* return TestResult(passed=False, ..., actual=None, error=...)
FailedResult(args, exp, error) == TestResult(FALSE, args, exp, None, error)

NameErrorText == "name 'defaultdict' is not defined"

\* the entry point run with the globals of the namespace its source was
\* exec-ed in: an unbound name raises NameError when it is reached
InNamespace(b, prebound) ==
    IF b.b # "returns_prebound" THEN b
    ELSE IF prebound THEN Behaviour("returns", b.value, "", "none")
    ELSE Behaviour("raises", None, NameErrorText, "none")

\* verifier._extract_solution_class: exec in an empty namespace, Exception
\* caught (the NameError of an unbound annotation too); "class", "none", or
\* the exec "exits" / "hangs"
_extract_solution_class(c) ==
    IF ~c.syntax_valid \/ c.top_level \in {"raises", "no_class", "defines_prebound"}
    THEN "none"
    ELSE IF c.top_level = "defines" THEN "class"
    ELSE c.top_level

\* PythonLanguage._build_exec_namespace: the names are bound
_build_exec_namespace == TRUE

\* PythonLanguage._extract_solution_class: exec in the pre-bound namespace
PythonLanguage_extract_solution_class(c) ==
    IF ~c.syntax_valid \/ c.top_level \in {"raises", "no_class"} THEN "none"
    ELSE IF c.top_level = "defines" THEN "class"
    ELSE IF c.top_level = "defines_prebound"
    THEN IF _build_exec_namespace THEN "class" ELSE "none"
    ELSE c.top_level

\* the try block around the guarded call: compare, or turn TimeoutError and
\* Exception into a failing result
GuardedResult(g, args, exp, T) ==
    CASE g.kind = "value" ->
             Outcome("return", TestResult(_compare_results(exp, g.value), args, exp, g.value, None),
                     IF g.failed THEN "call" ELSE "none", g.late)
      [] g.kind = "timeout" ->
             Outcome("return", FailedResult(args, exp, TimeoutText(T)), "none", g.late)
      [] g.kind = "exception" ->
             Outcome("return", FailedResult(args, exp, ErrorText(g.message)), "call", g.late)
      [] g.kind = "exit" -> Outcome("raise", None, "call", g.late)
      [] g.kind = "hang" -> Outcome("hang", None, "none", g.late)

\* verifier.run_test_case: the set of ways one call can end
run_test_case(c, args, exp, T, plat) ==
    LET cls == _extract_solution_class(c)
    IN IF cls = "exits" THEN {Outcome("raise", None, "exec", FALSE)}
       ELSE IF cls = "hangs" THEN {Outcome("hang", None, "none", FALSE)}
       ELSE IF cls = "none"
       THEN {Outcome("return",
                     FailedResult(args, exp, ErrorText("Could not extract Solution class")),
                     IF c.top_level \in {"raises", "defines_prebound"} THEN "exec" ELSE "none",
                     FALSE)}
       ELSE IF ~c.has_method
       THEN {Outcome("return",
                     FailedResult(args, exp, ErrorText("Could not find solution method")),
                     "none", FALSE)}
       ELSE IF c.ctor = "raises"
       THEN {Outcome("return",
                     FailedResult(args, exp, ErrorText("Could not instantiate Solution: {e}")),
                     "ctor", FALSE)}
       ELSE IF c.ctor = "exits" THEN {Outcome("raise", None, "ctor", FALSE)}
       ELSE IF c.ctor = "hangs" THEN {Outcome("hang", None, "none", FALSE)}
       ELSE {GuardedResult(_run_with_timeout(plat, InNamespace(b, FALSE)), args, exp, T) :
                b \in MethodBehaviours}

\* PythonLanguage.run_test_case
PythonLanguage_run_test_case(c, args, exp, T, plat) ==
    LET cls == PythonLanguage_extract_solution_class(c)
    IN IF cls = "exits" THEN {Outcome("raise", None, "exec", FALSE)}
       ELSE IF cls = "hangs" THEN {Outcome("hang", None, "none", FALSE)}
       ELSE IF cls = "none"
       THEN {Outcome("return",
                     FailedResult(args, exp, ErrorText("Could not extract Solution class")),
                     IF c.top_level \in {"raises", "defines_prebound"} THEN "exec" ELSE "none",
                     FALSE)}
       ELSE IF ~c.has_method
       THEN {Outcome("return",
                     FailedResult(args, exp, ErrorText("Could not find solution method")),
                     "none", FALSE)}
       ELSE IF c.ctor = "raises"
       THEN {Outcome("return",
                     FailedResult(args, exp, ErrorText("Could not instantiate Solution: {e}")),
                     "ctor", FALSE)}
       ELSE IF c.ctor = "exits" THEN {Outcome("raise", None, "ctor", FALSE)}
       ELSE IF c.ctor = "hangs" THEN {Outcome("hang", None, "none", FALSE)}
       ELSE {GuardedResult(_run_with_timeout(plat, InNamespace(b, _build_exec_namespace)),
                           args, exp, T) : b \in MethodBehaviours}

\* What one run of the generated harness under node does, as the adapter
\* sees it: node missing (shutil.which), the temp file cannot be written,
\* node missing at spawn, the subprocess times out, exits non-zero, prints
\* something that is no JSON, prints a JSON value that is no object, prints
\* an object with "error", without "result", or with the result value.
NodeRuns ==
    {[run |-> r, value |-> None, error |-> None] :
        r \in {"no_node", "tempfile_error", "spawn_not_found", "timeout",
               "exit_nonzero", "bad_output", "not_object", "no_result"}}
    \cup {[run |-> "error_payload", value |-> None, error |-> e] :
            e \in {None, ErrorText("boom")}}
    \cup {[run |-> "result", value |-> v, error |-> None] : v \in ReturnValues \cup {None}}

\* JavaScriptLanguage.run_test_case when the harness run goes as n says
JavaScriptLanguage_run(c, args, exp, T, n) ==
    LET Failed(text, late) ==
            Outcome("return", FailedResult(args, exp, text), "none", late)
        NotFound == ErrorText("Node.js not found. Install from https://nodejs.org/")
        After ==
            CASE n.run = "tempfile_error" -> Failed(ErrorText("{e}"), FALSE)
              [] n.run = "spawn_not_found" -> Failed(NotFound, FALSE)
              [] n.run = "timeout" -> Failed(TimeoutText(T), TRUE)
              [] n.run = "exit_nonzero" -> Failed(ErrorText("{stderr or stdout}"), FALSE)
              [] n.run = "bad_output" -> Failed(ErrorText("Could not parse output: {stdout}"), FALSE)
              [] n.run = "not_object" -> Failed(ErrorText("{e}"), FALSE)
              [] n.run = "error_payload" -> Failed(n.error, FALSE)
              [] n.run = "no_result" -> Failed(ErrorText("'result'"), FALSE)
              [] n.run = "result" ->
                     Outcome("return",
                             TestResult(_compare_results(exp, n.value), args, exp, n.value, None),
                             "none", FALSE)
    IN IF n.run = "no_node" THEN Failed(NotFound, FALSE)
       ELSE IF ~c.has_method
       THEN Failed(ErrorText("Could not find solution function"), FALSE)
       ELSE After

\* JavaScriptLanguage.run_test_case: the set of ways one call can end
JavaScriptLanguage_run_test_case(c, args, exp, T) ==
    {JavaScriptLanguage_run(c, args, exp, T, n) : n \in NodeRuns}

\* the transient harness file exists when JavaScriptLanguage.run_test_case is
\* left: it is created once node was found and a function name extracted,
\* unlinked after the run and in the handlers of TimeoutExpired and of
\* Exception (there only if tmp_path was assigned, that is, if the file was
\* written), not in the handler of FileNotFoundError
JavaScriptLanguage_run_tmp(c, n) ==
    /\ n.run # "no_node"
    /\ c.has_method
    /\ n.run \in {"tempfile_error", "spawn_not_found"}

\* TypeScriptLanguage.run_test_case
TypeScriptLanguage_run_test_case(c, args, exp, T) ==
    {Outcome("return",
             FailedResult(args, exp, ErrorText("TypeScript test execution not yet implemented")),
             "none", FALSE)}

\* LanguageSupport.run_test_case, by adapter
AdapterRun(ad, c, args, exp, T, plat) ==
    CASE ad = "core" -> run_test_case(c, args, exp, T, plat)
      [] ad = "python" -> PythonLanguage_run_test_case(c, args, exp, T, plat)
      [] ad = "javascript" -> JavaScriptLanguage_run_test_case(c, args, exp, T)
      [] ad = "typescript" -> TypeScriptLanguage_run_test_case(c, args, exp, T)

---------------------------------------------------------------------------
(* State machine of run_test_cases / verify_solution (Spec).               *)

ExampleSet ==
    {[input |-> <<"1">>, output |-> <<"1">>],
     [input |-> <<>>, output |-> <<"1">>],
     [input |-> <<"1">>, output |-> <<>>],
     [input |-> <<" ", "1", "\n", "2">>, output |-> <<"2">>]}

LineSet == {<<"1">>, <<"2">>}

OutputSet == {PyInt(1)}

SeqsUpTo(S, n) == UNION {[1..k -> S] : k \in 0..n}

\* verifier._count_method_params
_count_method_params(c) == IF c.syntax_valid /\ c.has_method THEN c.params ELSE 0

\* faulty variant: the trailing lines that do not fill a group form a group
_group_test_case_inputs_keeps_tail(lines, args_per_case) ==
    IF args_per_case <= 0 \/ lines = <<>> THEN <<>>
    ELSE [g \in 1..((Len(lines) + args_per_case - 1) \div args_per_case) |->
             SubSeq(lines, (g - 1) * args_per_case + 1,
                    IF g * args_per_case < Len(lines) THEN g * args_per_case
                    ELSE Len(lines))]

\* verifier._group_test_case_inputs: complete groups of args_per_case lines
_group_test_case_inputs(lines, args_per_case) ==
    IF args_per_case <= 0 \/ lines = <<>> THEN <<>>
    ELSE [g \in 1..(Len(lines) \div args_per_case) |->
             SubSeq(lines, (g - 1) * args_per_case + 1, g * args_per_case)]

grouped_inputs == _group_test_case_inputs(test_cases, _count_method_params(code))

ParserIdle == parse_values = <<>> /\ parse_text = <<>> /\ parse_result = <<>>

\* _registry: dict = {}
RegistryIdle == _registry = {} /\ calls = <<>> /\ returned = None

\* a result variable no call has set yet
Unset == [t |-> "unset"]

EntryPointIdle == source = None /\ method_name = Unset /\ param_count = Unset

\* no worker thread was started
WorkersIdle == workers = <<>> /\ queues = <<>> /\ reports = <<>>

GuardedIdle ==
    /\ behaviour = None /\ alarm = FALSE /\ handler = "SIG_DFL"
    /\ old_handler = None /\ pending = None /\ guarded = None
    /\ WorkersIdle

ToolIdle ==
    /\ tool = "none" /\ tool_run = None /\ tool_result = None /\ tmp_exists = FALSE
    /\ top_level_ran = FALSE

\* no workflow of the command line is running
CliIdle ==
    /\ workflow = None /\ verified = Unset /\ issues_reported = FALSE
    /\ batch_args = None /\ batch_items = <<>> /\ batch_results = <<>>
    /\ summary = None

Idle ==
    /\ cmp_expected = None /\ cmp_actual = None /\ cmp_result = FALSE
    /\ CliIdle
    /\ ToolIdle
    /\ GuardedIdle
    /\ ParserIdle
    /\ RegistryIdle
    /\ EntryPointIdle

Init ==
    /\ pc = "start"
    /\ code \in CodeSet
    /\ platform \in Platforms
    /\ adapter = "core"
    /\ timeout = execution_timeout
    /\ examples \in SeqsUpTo(ExampleSet, MaxExamples)
    /\ test_cases \in SeqsUpTo(LineSet, MaxLines)
    /\ expected_outputs \in SeqsUpTo(OutputSet, MaxOutputs)
    /\ result = VerificationResult(FALSE, None)
    /\ tested_inputs = {}
    /\ idx = 0
    /\ input_args = <<>>
    /\ expected = None
    /\ outcome = NoOutcome
    /\ Idle

inputs == <<code, platform, adapter, timeout, examples, test_cases, expected_outputs>>
compare_vars == <<cmp_expected, cmp_actual, cmp_result>>
parser_vars == <<parse_values, parse_text, parse_result>>
registry_vars == <<_registry, calls, returned>>
entry_point_vars == <<source, method_name, param_count>>
worker_vars == <<workers, queues, reports>>
guarded_vars == <<behaviour, alarm, handler, old_handler, pending, guarded, worker_vars>>
tool_vars == <<tool, tool_run, tool_result, tmp_exists, top_level_ran>>
cli_vars == <<workflow, verified, issues_reported, batch_args, batch_items,
              batch_results, summary>>
aux_vars == <<parser_vars, registry_vars, entry_point_vars, guarded_vars, tool_vars,
              cli_vars>>

\* faulty variant: the syntax failure is recorded but the run goes on
CheckSyntaxStep_continues ==
    /\ pc = "start"
    /\ result' = IF ~code.syntax_valid
                 THEN VerificationResult(FALSE, ErrorText("Line {error_line}: {error_message}"))
                 ELSE VerificationResult(TRUE, None)
    /\ pc' = "examples"
    /\ idx' = 1
    /\ tested_inputs' = {}
    /\ UNCHANGED <<inputs, input_args, expected, outcome, compare_vars, aux_vars>>

\* check_syntax, and the early return of run_test_cases (lines 448-459)
CheckSyntaxStep ==
    /\ pc = "start"
    /\ IF ~code.syntax_valid
       THEN /\ result' = VerificationResult(FALSE, ErrorText("Line {error_line}: {error_message}"))
            /\ pc' = "done"
       ELSE /\ result' = VerificationResult(TRUE, None)
            /\ pc' = "examples"
    /\ idx' = 1
    /\ tested_inputs' = {}
    /\ UNCHANGED <<inputs, input_args, expected, outcome, compare_vars, aux_vars>>

\* head of the for loop over the examples (lines 462-477)
NextExample ==
    /\ pc = "examples"
    /\ IF idx > Len(examples)
       THEN /\ pc' = "supplementary"
            /\ UNCHANGED <<idx, input_args, expected, tested_inputs>>
       ELSE IF examples[idx].input = <<>> \/ examples[idx].output = <<>>
       THEN /\ idx' = idx + 1
            /\ UNCHANGED <<pc, input_args, expected, tested_inputs>>
       ELSE IF \/ ArgsRaised(_parse_test_input(examples[idx].input))
               \/ _parse_expected_output(examples[idx].output).t = "raise"
       THEN /\ pc' = "raised"
            /\ UNCHANGED <<idx, input_args, expected, tested_inputs>>
       ELSE /\ input_args' = _parse_test_input(examples[idx].input)
            /\ expected' = _parse_expected_output(examples[idx].output)
            /\ tested_inputs' = tested_inputs \cup {input_key(input_args')}
            /\ pc' = "run_example"
            /\ UNCHANGED idx
    /\ UNCHANGED <<inputs, result, outcome, compare_vars, aux_vars>>

\* test_result = run_test_case(solution_code, input_args, expected)
RunTest ==
    /\ pc \in {"run_example", "run_chunk"}
    /\ \E o \in run_test_case(code, input_args, expected, timeout, platform) :
          /\ outcome' = o
          /\ pc' = IF o.kind = "raise" THEN "raised"
                   ELSE IF o.kind = "hang" THEN "hung"
                   ELSE IF pc = "run_example" THEN "append_example" ELSE "append_chunk"
    /\ UNCHANGED <<inputs, result, tested_inputs, idx, input_args, expected, compare_vars, aux_vars>>

\* faulty variant: the new result is put in front of the earlier ones
AppendResult_front ==
    /\ pc \in {"append_example", "append_chunk"}
    /\ result' = [result EXCEPT !.test_results = <<outcome.test_result>> \o @]
    /\ pc' = IF pc = "append_example" THEN "count_example" ELSE "count_chunk"
    /\ UNCHANGED <<inputs, tested_inputs, idx, input_args, expected, outcome, compare_vars, aux_vars>>

\* result.test_results.append(test_result)
AppendResult ==
    /\ pc \in {"append_example", "append_chunk"}
    /\ result' = [result EXCEPT !.test_results = Append(@, outcome.test_result)]
    /\ pc' = IF pc = "append_example" THEN "count_example" ELSE "count_chunk"
    /\ UNCHANGED <<inputs, tested_inputs, idx, input_args, expected, outcome, compare_vars, aux_vars>>

\* faulty variant: only failing tests are counted as run
CountRun_failures_only ==
    /\ pc \in {"count_example", "count_chunk"}
    /\ result' = IF outcome.test_result.passed
                 THEN result
                 ELSE [result EXCEPT !.tests_run = @ + 1]
    /\ pc' = IF pc = "count_example" THEN "passed_example" ELSE "passed_chunk"
    /\ UNCHANGED <<inputs, tested_inputs, idx, input_args, expected, outcome, compare_vars, aux_vars>>

\* result.tests_run += 1
CountRun ==
    /\ pc \in {"count_example", "count_chunk"}
    /\ result' = [result EXCEPT !.tests_run = @ + 1]
    /\ pc' = IF pc = "count_example" THEN "passed_example" ELSE "passed_chunk"
    /\ UNCHANGED <<inputs, tested_inputs, idx, input_args, expected, outcome, compare_vars, aux_vars>>

\* faulty variant: every test that was run is counted as passed
CountPassed_always ==
    /\ pc \in {"passed_example", "passed_chunk"}
    /\ result' = [result EXCEPT !.tests_passed = @ + 1]
    /\ pc' = IF pc = "passed_example" THEN "examples" ELSE "chunks"
    /\ idx' = idx + 1
    /\ UNCHANGED <<inputs, tested_inputs, input_args, expected, outcome, compare_vars, aux_vars>>

\* if test_result.passed: result.tests_passed += 1; then the next iteration
CountPassed ==
    /\ pc \in {"passed_example", "passed_chunk"}
    /\ result' = IF outcome.test_result.passed
                 THEN [result EXCEPT !.tests_passed = @ + 1]
                 ELSE result
    /\ pc' = IF pc = "passed_example" THEN "examples" ELSE "chunks"
    /\ idx' = idx + 1
    /\ UNCHANGED <<inputs, tested_inputs, input_args, expected, outcome, compare_vars, aux_vars>>

\* if expected_outputs and test_cases: ... if args_per_case > 0 (lines 486-490)
StartSupplementary ==
    /\ pc = "supplementary"
    /\ IF expected_outputs # <<>> /\ test_cases # <<>> /\ _count_method_params(code) > 0
       THEN pc' = "chunks"
       ELSE pc' = "done"
    /\ idx' = 1
    /\ UNCHANGED <<inputs, result, tested_inputs, input_args, expected, outcome, compare_vars, aux_vars>>

\* faulty variant: the chunk is run without looking its key up
NextChunk_no_dedup ==
    /\ pc = "chunks"
    /\ IF idx > Len(grouped_inputs) \/ idx > Len(expected_outputs)
       THEN /\ pc' = "done"
            /\ UNCHANGED <<idx, input_args, expected, tested_inputs>>
       ELSE /\ input_args' = _parse_test_input(join(<<"\n">>, grouped_inputs[idx]))
            /\ expected' = expected_outputs[idx]
            /\ tested_inputs' = tested_inputs \cup {input_key(input_args')}
            /\ pc' = "run_chunk"
            /\ UNCHANGED idx
    /\ UNCHANGED <<inputs, result, outcome, compare_vars, aux_vars>>

\* head of the for loop over grouped_inputs (lines 492-506)
NextChunk ==
    /\ pc = "chunks"
    /\ IF idx > Len(grouped_inputs) \/ idx > Len(expected_outputs)
       THEN /\ pc' = "done"
            /\ UNCHANGED <<idx, input_args, expected, tested_inputs>>
       ELSE IF ArgsRaised(_parse_test_input(join(<<"\n">>, grouped_inputs[idx])))
       THEN /\ pc' = "raised"
            /\ UNCHANGED <<idx, input_args, expected, tested_inputs>>
       ELSE /\ input_args' = _parse_test_input(join(<<"\n">>, grouped_inputs[idx]))
            /\ expected' = expected_outputs[idx]
            /\ IF input_key(input_args') \in tested_inputs
               THEN /\ idx' = idx + 1
                    /\ UNCHANGED <<pc, tested_inputs>>
               ELSE /\ tested_inputs' = tested_inputs \cup {input_key(input_args')}
                    /\ pc' = "run_chunk"
                    /\ UNCHANGED idx
    /\ UNCHANGED <<inputs, result, outcome, compare_vars, aux_vars>>

Next ==
    \/ CheckSyntaxStep
    \/ NextExample
    \/ RunTest
    \/ AppendResult
    \/ CountRun
    \/ CountPassed
    \/ StartSupplementary
    \/ NextChunk

Spec == Init /\ [][Next]_vars

---------------------------------------------------------------------------
(* One run_test_case call on any adapter (SpecAdapter).                    *)

Timeouts == {1, execution_timeout}

InitAdapter ==
    /\ pc = "call"
    /\ code \in CodeSet
    /\ platform \in Platforms
    /\ adapter \in Adapters
    /\ timeout \in Timeouts
    /\ examples = <<>>
    /\ test_cases = <<>>
    /\ expected_outputs = <<>>
    /\ result = VerificationResult(FALSE, None)
    /\ tested_inputs = {}
    /\ idx = 0
    /\ input_args \in {<<>>, <<PyInt(1)>>}
    /\ expected \in {None, PyInt(1), PyInt(2)}
    /\ outcome = NoOutcome
    /\ Idle

\* adapter.run_test_case(code, input_args, expected_output, timeout)
CallRunTestCase ==
    /\ pc = "call"
    /\ \E o \in AdapterRun(adapter, code, input_args, expected, timeout, platform) :
          /\ outcome' = o
          /\ pc' = IF o.kind = "raise" THEN "raised"
                   ELSE IF o.kind = "hang" THEN "hung" ELSE "returned"
    /\ UNCHANGED <<inputs, result, tested_inputs, idx, input_args, expected, compare_vars, aux_vars>>

NextAdapter == CallRunTestCase

SpecAdapter == InitAdapter /\ [][NextAdapter]_vars

\* the same, the call that can take a step taking it: a call that is not
\* blocked goes on
SpecAdapterFair == SpecAdapter /\ WF_vars(NextAdapter)

---------------------------------------------------------------------------
(* _compare_results on bounded values (SpecCompare).                       *)

MaxListLen == 3

CompareElements ==
    {PyInt(1), PyInt(2), PyStr(<<"a">>), None, PyList(<<PyInt(2), PyInt(1)>>)}

CompareValues ==
    {PyList(xs) : xs \in SeqsUpTo(CompareElements, MaxListLen)}
    \cup {PyTuple(xs) : xs \in SeqsUpTo({PyInt(1), PyInt(2)}, 2)}
    \cup {PyStr(<<"a", "b">>), PyStr(<<"b", "a">>), PyStr(<<"a">>), PyInt(1), PyInt(2), None}

InitCompare ==
    /\ pc = "compare"
    /\ cmp_expected \in CompareValues
    /\ cmp_actual \in CompareValues
    /\ cmp_result = FALSE
    /\ code = Code(TRUE, TRUE, 1, "defines", "ok")
    /\ platform = "unix"
    /\ adapter = "core"
    /\ timeout = execution_timeout
    /\ examples = <<>>
    /\ test_cases = <<>>
    /\ expected_outputs = <<>>
    /\ result = VerificationResult(FALSE, None)
    /\ tested_inputs = {}
    /\ idx = 0
    /\ input_args = <<>>
    /\ expected = None
    /\ outcome = NoOutcome
    /\ CliIdle
    /\ GuardedIdle
    /\ ToolIdle
    /\ ParserIdle
    /\ RegistryIdle
    /\ EntryPointIdle

\* passed = _compare_results(expected_output, actual)
Compare ==
    /\ pc = "compare"
    /\ cmp_result' = _compare_results(cmp_expected, cmp_actual)
    /\ pc' = "compared"
    /\ UNCHANGED <<inputs, result, tested_inputs, idx, input_args, expected, outcome,
                   cmp_expected, cmp_actual, aux_vars>>

NextCompare == Compare

SpecCompare == InitCompare /\ [][NextCompare]_vars

---------------------------------------------------------------------------
(* The parsing functions on bounded texts (SpecParser).                    *)

MaxValues == 2

\* the engine of run_test_cases at rest
EngineIdle ==
    /\ code = Code(TRUE, TRUE, 1, "defines", "ok")
    /\ platform = "unix"
    /\ adapter = "core"
    /\ timeout = execution_timeout
    /\ examples = <<>>
    /\ test_cases = <<>>
    /\ expected_outputs = <<>>
    /\ result = VerificationResult(FALSE, None)
    /\ tested_inputs = {}
    /\ idx = 0
    /\ input_args = <<>>
    /\ expected = None
    /\ outcome = NoOutcome
    /\ cmp_expected = None /\ cmp_actual = None /\ cmp_result = FALSE

\* value texts: 1, [1,2], "[", "a", {[]}, x and a blank
ValueTexts ==
    {<<"1">>,
     <<"[", "1", ",", "2", "]">>,
     <<"\"", "[", "\"">>,
     <<"\"", "a", "\"">>,
     <<"{", "[", "]", "}">>,
     <<"x">>,
     <<" ">>}

ArgumentNames == <<"a", "b", "x">>

\* the block 'a = v1, b = v2, ...' of an example
AssignmentBlock(vs) ==
    join(<<",", " ">>, [k \in 1..Len(vs) |-> <<ArgumentNames[k], " ", "=", " ">> \o vs[k]])

\* the block with one value per line
LineBlock(vs) == join(<<"\n">>, vs)

InitParser ==
    /\ pc = "parse"
    /\ parse_values \in SeqsUpTo(ValueTexts, MaxValues)
    /\ parse_text = <<>>
    /\ parse_result = <<>>
    /\ CliIdle
    /\ EngineIdle
    /\ GuardedIdle
    /\ ToolIdle
    /\ RegistryIdle
    /\ EntryPointIdle

\* test_parser._parse_test_input(block), the block in either dialect
CallParseTestInput ==
    /\ pc = "parse"
    /\ \E block \in {AssignmentBlock(parse_values), LineBlock(parse_values)} :
          /\ parse_text' = block
          /\ parse_result' = test_parser_parse_test_input(block)
    /\ pc' = "parsed_input"
    /\ UNCHANGED <<inputs, result, tested_inputs, idx, input_args, expected, outcome,
                   compare_vars, cli_vars, parse_values, registry_vars, entry_point_vars,
                   guarded_vars, tool_vars>>

\* verifier._parse_test_input(block), the function run_test_cases calls on
\* the input of an example (line 469), the block in either dialect
CallVerifierParseTestInput ==
    /\ pc = "parse"
    /\ \E block \in {AssignmentBlock(parse_values), LineBlock(parse_values)} :
          /\ parse_text' = block
          /\ parse_result' = _parse_test_input(block)
    /\ pc' = "parsed_verifier_input"
    /\ UNCHANGED <<inputs, result, tested_inputs, idx, input_args, expected, outcome,
                   compare_vars, cli_vars, parse_values, registry_vars, entry_point_vars,
                   guarded_vars, tool_vars>>

\* test_parser._parse_single_value(value)
CallParseSingleValue ==
    /\ pc = "parse"
    /\ \E k \in 1..Len(parse_values) :
          /\ parse_text' = parse_values[k]
          /\ parse_result' = _parse_single_value(parse_values[k])
    /\ pc' = "parsed_value"
    /\ UNCHANGED <<inputs, result, tested_inputs, idx, input_args, expected, outcome,
                   compare_vars, cli_vars, parse_values, registry_vars, entry_point_vars,
                   guarded_vars, tool_vars>>

\* test_parser._parse_expected_output(output_str)
CallParseExpectedOutput ==
    /\ pc = "parse"
    /\ \E k \in 1..Len(parse_values) :
          /\ parse_text' = parse_values[k]
          /\ parse_result' = test_parser_parse_expected_output(parse_values[k])
    /\ pc' = "parsed_output"
    /\ UNCHANGED <<inputs, result, tested_inputs, idx, input_args, expected, outcome,
                   compare_vars, cli_vars, parse_values, registry_vars, entry_point_vars,
                   guarded_vars, tool_vars>>

\* verifier._parse_expected_output(output_str)
CallVerifierParseExpectedOutput ==
    /\ pc = "parse"
    /\ \E k \in 1..Len(parse_values) :
          /\ parse_text' = parse_values[k]
          /\ parse_result' = _parse_expected_output(parse_values[k])
    /\ pc' = "parsed_verifier_output"
    /\ UNCHANGED <<inputs, result, tested_inputs, idx, input_args, expected, outcome,
                   compare_vars, cli_vars, parse_values, registry_vars, entry_point_vars,
                   guarded_vars, tool_vars>>

NextParser ==
    \/ CallParseTestInput
    \/ CallVerifierParseTestInput
    \/ CallParseSingleValue
    \/ CallParseExpectedOutput
    \/ CallVerifierParseExpectedOutput

SpecParser == InitParser /\ [][NextParser]_vars

---------------------------------------------------------------------------
(* The language registry (SpecRegistry).                                   *)

MaxCalls == 3

\* LanguageInfo of an adapter: the fields the registry reads
LanguageInfo(name, slug, leetcode_slugs) ==
    [name |-> name, slug |-> slug, leetcode_slugs |-> leetcode_slugs]

PythonLanguage == LanguageInfo("Python", "python3", <<"python3", "python">>)
JavaScriptLanguage == LanguageInfo("JavaScript", "javascript", <<"javascript">>)
TypeScriptLanguage == LanguageInfo("TypeScript", "typescript", <<"typescript">>)

\* an adapter of the caller's own
CustomLanguages == {LanguageInfo("Go", "go", <<"golang">>)}

_default_slug == "python3"

\* _registry[slug] = language
SetItem(registry, slug, language) ==
    {p \in registry : p[1] # slug} \cup {<<slug, language>>}

RECURSIVE SetItems(_, _, _)
SetItems(registry, slugs, language) ==
    IF slugs = <<>> THEN registry
    ELSE SetItems(SetItem(registry, Head(slugs), language), Tail(slugs), language)

\* languages.register: the registry after the call
register(registry, language) ==
    SetItem(SetItems(registry, language.leetcode_slugs, language), language.slug, language)

\* languages._ensure_registered: the built-ins are registered when the
\* registry is empty
_ensure_registered(registry) ==
    IF registry # {} THEN registry
    ELSE register(register(register(registry, PythonLanguage), JavaScriptLanguage),
                  TypeScriptLanguage)

\* _registry.get(slug)
DictGet(registry, slug) ==
    IF \E p \in registry : p[1] = slug
    THEN (CHOOSE p \in registry : p[1] = slug)[2]
    ELSE None

\* languages.get_language: the value returned
get_language(registry, slug) == DictGet(_ensure_registered(registry), slug)

\* languages.default_language: the value returned, or the RuntimeError
default_language(registry) ==
    IF get_language(registry, _default_slug) = None THEN Raised("RuntimeError")
    ELSE get_language(registry, _default_slug)

\* info().file_extension of an adapter
file_extension(language) ==
    CASE language.slug = "python3" -> ".py"
      [] language.slug = "javascript" -> ".js"
      [] language.slug = "typescript" -> ".ts"
      [] language.slug = "go" -> ".go"

\* languages.get_language_by_extension: the value returned; the adapters
\* have different extensions, so the first match in dict order is the only
\* one
get_language_by_extension(registry, extension) ==
    LET matching == {p[2] : p \in {q \in _ensure_registered(registry) :
                                       file_extension(q[2]) = extension}}
    IN IF matching = {} THEN None ELSE CHOOSE language \in matching : TRUE

\* languages.list_languages: the infos of the registered adapters, one per
\* primary slug (as a set: the order of the list is the order of insertion)
list_languages(registry) == {p[2] : p \in _ensure_registered(registry)}

LookupSlugs == {"python3", "python", "javascript", "typescript", "go", "golang", "cobol"}

LookupExtensions == {".py", ".go", ".rb"}

InitRegistry ==
    /\ pc = "registry"
    /\ _registry = {}
    /\ calls = <<>>
    /\ returned = None
    /\ CliIdle
    /\ EngineIdle
    /\ GuardedIdle
    /\ ToolIdle
    /\ ParserIdle
    /\ EntryPointIdle

\* register(language)
RegisterCall ==
    /\ pc = "registry"
    /\ Len(calls) < MaxCalls
    /\ \E language \in CustomLanguages :
          /\ _registry' = register(_registry, language)
          /\ calls' = Append(calls, <<"register", language.slug>>)
    /\ returned' = None
    /\ UNCHANGED <<pc, inputs, result, tested_inputs, idx, input_args, expected, outcome,
                   compare_vars, cli_vars, parser_vars, entry_point_vars, guarded_vars,
                   tool_vars>>

\* get_language(slug)
GetLanguageCall ==
    /\ pc = "registry"
    /\ Len(calls) < MaxCalls
    /\ \E slug \in LookupSlugs :
          /\ _registry' = _ensure_registered(_registry)
          /\ returned' = get_language(_registry, slug)
          /\ calls' = Append(calls, <<"get_language", slug>>)
    /\ UNCHANGED <<pc, inputs, result, tested_inputs, idx, input_args, expected, outcome,
                   compare_vars, cli_vars, parser_vars, entry_point_vars, guarded_vars,
                   tool_vars>>

\* default_language()
DefaultLanguageCall ==
    /\ pc = "registry"
    /\ Len(calls) < MaxCalls
    /\ _registry' = _ensure_registered(_registry)
    /\ returned' = default_language(_registry)
    /\ calls' = Append(calls, <<"default_language", _default_slug>>)
    /\ UNCHANGED <<pc, inputs, result, tested_inputs, idx, input_args, expected, outcome,
                   compare_vars, cli_vars, parser_vars, entry_point_vars, guarded_vars,
                   tool_vars>>

\* get_language_by_extension(extension)
GetLanguageByExtensionCall ==
    /\ pc = "registry"
    /\ Len(calls) < MaxCalls
    /\ \E extension \in LookupExtensions :
          /\ _registry' = _ensure_registered(_registry)
          /\ returned' = get_language_by_extension(_registry, extension)
          /\ calls' = Append(calls, <<"get_language_by_extension", extension>>)
    /\ UNCHANGED <<pc, inputs, result, tested_inputs, idx, input_args, expected, outcome,
                   compare_vars, cli_vars, parser_vars, entry_point_vars, guarded_vars,
                   tool_vars>>

\* list_languages()
ListLanguagesCall ==
    /\ pc = "registry"
    /\ Len(calls) < MaxCalls
    /\ _registry' = _ensure_registered(_registry)
    /\ returned' = [t |-> "infos", infos |-> list_languages(_registry)]
    /\ calls' = Append(calls, <<"list_languages", "">>)
    /\ UNCHANGED <<pc, inputs, result, tested_inputs, idx, input_args, expected, outcome,
                   compare_vars, cli_vars, parser_vars, entry_point_vars, guarded_vars,
                   tool_vars>>

NextRegistry ==
    \/ RegisterCall
    \/ GetLanguageCall
    \/ DefaultLanguageCall
    \/ GetLanguageByExtensionCall
    \/ ListLanguagesCall

SpecRegistry == InitRegistry /\ [][NextRegistry]_vars

---------------------------------------------------------------------------
(* Entry point of a Python source (SpecEntryPoint).                        *)

MaxItems == 2

\* an item of a class body: kind "def" (ast.FunctionDef), "async"
\* (ast.AsyncFunctionDef) or "assign"; posonlyargs are the parameters before
\* a '/', args the positional-or-keyword ones
Item(kind, name, posonlyargs, args) ==
    [kind |-> kind, name |-> name, posonlyargs |-> posonlyargs, args |-> args]

\* def _h(self), def f(self, x), def g(self, x, /), def h(x, y),
\* async def a(self, x), and an assignment
Items ==
    {Item("def", <<"_", "h">>, <<>>, <<"self">>),
     Item("def", <<"f">>, <<>>, <<"self", "x">>),
     Item("def", <<"g">>, <<"self", "x">>, <<>>),
     Item("def", <<"h">>, <<>>, <<"x", "y">>),
     Item("async", <<"a">>, <<>>, <<"self", "x">>),
     Item("assign", <<"x">>, <<>>, <<>>)}

ClassDef(name, body) == [name |-> name, body |-> body]

Bodies == SeqsUpTo(Items, MaxItems)

\* a source: whether ast.parse accepts it, and its class definitions in the
\* order ast.walk yields them
Source(parses, classes) == [parses |-> parses, classes |-> classes]

SyntaxErrorSource == Source(FALSE, <<>>)

Sources ==
    {SyntaxErrorSource}
    \cup {Source(TRUE, <<ClassDef(name, body)>>) :
            name \in {"Solution", "Other"}, body \in Bodies}
    \cup {Source(TRUE, <<ClassDef(name, first), ClassDef("Solution", body)>>) :
            name \in {"Solution", "Other"},
            first \in {<<>>, <<Item("def", <<"_", "h">>, <<>>, <<"self">>)>>,
                       <<Item("def", <<"f">>, <<>>, <<"self", "x">>)>>},
            body \in Bodies}

\* name.startswith(prefix)
startswith(name, prefix) ==
    Len(name) >= Len(prefix) /\ SubSeq(name, 1, Len(prefix)) = prefix

\* isinstance(item, ast.FunctionDef) and not item.name.startswith("_")
IsPublicFunctionDef(item) == item.kind = "def" /\ ~startswith(item.name, <<"_">>)

\* the two nested loops of extract_method_name and count_method_params: the
\* first public FunctionDef of the first class Solution that has one, None
\* when there is none
RECURSIVE FirstIn(_)
FirstIn(body) ==
    IF body = <<>> THEN None
    ELSE IF IsPublicFunctionDef(Head(body)) THEN Head(body)
    ELSE FirstIn(Tail(body))

RECURSIVE WalkClasses(_)
WalkClasses(classes) ==
    IF classes = <<>> THEN None
    ELSE IF Head(classes).name = "Solution" /\ FirstIn(Head(classes).body) # None
    THEN FirstIn(Head(classes).body)
    ELSE WalkClasses(Tail(classes))

\* PythonLanguage.extract_method_name
PythonLanguage_extract_method_name(src) ==
    IF ~src.parses THEN None
    ELSE IF WalkClasses(src.classes) = None THEN None
    ELSE PyStr(WalkClasses(src.classes).name)

\* PythonLanguage.count_method_params
PythonLanguage_count_method_params(src) ==
    IF ~src.parses THEN 0
    ELSE IF WalkClasses(src.classes) = None THEN 0
    ELSE LET args == WalkClasses(src.classes).args
             count == Len(args)
         IN IF count > 0 /\ args[1] = "self" THEN count - 1 ELSE count

InitEntryPoint ==
    /\ pc = "entry_point"
    /\ source \in Sources
    /\ method_name = Unset
    /\ param_count = Unset
    /\ CliIdle
    /\ EngineIdle
    /\ GuardedIdle
    /\ ToolIdle
    /\ ParserIdle
    /\ RegistryIdle

\* lang.extract_method_name(code)
ExtractMethodName ==
    /\ pc = "entry_point"
    /\ method_name = Unset
    /\ method_name' = PythonLanguage_extract_method_name(source)
    /\ UNCHANGED <<pc, inputs, result, tested_inputs, idx, input_args, expected, outcome,
                   compare_vars, cli_vars, parser_vars, registry_vars, source, param_count,
                   guarded_vars, tool_vars>>

\* lang.count_method_params(code)
CountMethodParams ==
    /\ pc = "entry_point"
    /\ param_count = Unset
    /\ param_count' = PyInt(PythonLanguage_count_method_params(source))
    /\ UNCHANGED <<pc, inputs, result, tested_inputs, idx, input_args, expected, outcome,
                   compare_vars, cli_vars, parser_vars, registry_vars, source, method_name,
                   guarded_vars, tool_vars>>

NextEntryPoint == ExtractMethodName \/ CountMethodParams

SpecEntryPoint == InitEntryPoint /\ [][NextEntryPoint]_vars

---------------------------------------------------------------------------
(* The guarded call, statement by statement (SpecTimeout).                 *)

\* what the callable does, the names it uses being bound
CallableBehaviours == {b \in MethodBehaviours : b.b # "returns_prebound"}

\* the SIGALRM handler the caller had installed
CallerHandlers == {"SIG_DFL", "caller_handler"}

rest_vars == <<inputs, result, tested_inputs, idx, input_args, expected, outcome,
               compare_vars, cli_vars, parser_vars, registry_vars, entry_point_vars, tool_vars,
               worker_vars, cli_vars>>

InitTimeout ==
    /\ pc = "call"
    /\ platform \in Platforms
    /\ timeout \in Timeouts
    /\ behaviour \in CallableBehaviours
    /\ handler \in CallerHandlers
    /\ alarm = FALSE
    /\ old_handler = None
    /\ pending = None
    /\ guarded = None
    /\ CliIdle
    /\ WorkersIdle
    /\ code = Code(TRUE, TRUE, 1, "defines", "ok")
    /\ adapter = "core"
    /\ examples = <<>>
    /\ test_cases = <<>>
    /\ expected_outputs = <<>>
    /\ result = VerificationResult(FALSE, None)
    /\ tested_inputs = {}
    /\ idx = 0
    /\ input_args = <<>>
    /\ expected = None
    /\ outcome = NoOutcome
    /\ cmp_expected = None /\ cmp_actual = None /\ cmp_result = FALSE
    /\ ParserIdle
    /\ RegistryIdle
    /\ EntryPointIdle
    /\ ToolIdle

\* _run_with_timeout on win32: the worker-thread strategy, as one step
WindowsCall ==
    /\ pc = "call"
    /\ platform = "win32"
    /\ guarded' = _run_with_timeout_windows(behaviour)
    /\ pc' = "left"
    /\ UNCHANGED <<rest_vars, behaviour, alarm, handler, old_handler, pending>>

\* old_handler = signal.signal(signal.SIGALRM, _timeout_handler)
UnixInstallHandler ==
    /\ pc = "call"
    /\ platform # "win32"
    /\ old_handler' = handler
    /\ handler' = "_timeout_handler"
    /\ pc' = "installed"
    /\ UNCHANGED <<rest_vars, behaviour, alarm, pending, guarded>>

\* signal.alarm(timeout)
UnixArm ==
    /\ pc = "installed"
    /\ alarm' = (timeout > 0)
    /\ pc' = "armed"
    /\ UNCHANGED <<rest_vars, behaviour, handler, old_handler, pending, guarded>>

\* try: result = func(*args): the callable starts
UnixEnterTry ==
    /\ pc = "armed"
    /\ pc' = "running"
    /\ UNCHANGED <<rest_vars, behaviour, alarm, handler, old_handler, pending, guarded>>

\* the callable returns or raises before the deadline and control enters
\* the finally block
UnixCallableEnds ==
    /\ pc = "running"
    /\ behaviour.b # "slow"
    /\ pending' = CASE behaviour.b = "returns" ->
                           Guarded("value", behaviour.value, "", FALSE, FALSE)
                    [] behaviour.b = "raises" ->
                           Guarded("exception", None, behaviour.message, FALSE, TRUE)
                    [] behaviour.b = "exits" -> Guarded("exit", None, "", FALSE, TRUE)
    /\ pc' = "finally"
    /\ UNCHANGED <<rest_vars, behaviour, alarm, handler, old_handler, guarded>>

\* the countdown expires: _timeout_handler raises TimeoutError in whatever
\* the main thread is executing. Before the try block and inside the finally
\* block the error leaves the function at once; inside the callable it is the
\* callable that receives it.
UnixAlarmFires ==
    /\ alarm
    /\ handler = "_timeout_handler"
    /\ pc \in {"armed", "running", "finally"}
    /\ pc = "running" => behaviour.b = "slow"
    /\ alarm' = FALSE
    /\ IF pc \in {"armed", "finally"}
       THEN /\ guarded' = Guarded("timeout", None, "", TRUE, FALSE)
            /\ pc' = "left"
            /\ UNCHANGED pending
       ELSE IF behaviour.on_alarm = "hangs"
       THEN /\ pc' = "hung"
            /\ UNCHANGED <<pending, guarded>>
       ELSE /\ pending' = IF behaviour.on_alarm = "propagates"
                          THEN Guarded("timeout", None, "", TRUE, FALSE)
                          ELSE Guarded("value", behaviour.value, "", TRUE, FALSE)
            /\ pc' = "finally"
            /\ UNCHANGED guarded
    /\ UNCHANGED <<rest_vars, behaviour, handler, old_handler>>

\* finally: signal.alarm(0)
UnixDisarm ==
    /\ pc = "finally"
    /\ alarm' = FALSE
    /\ pc' = "disarmed"
    /\ UNCHANGED <<rest_vars, behaviour, handler, old_handler, pending, guarded>>

\* signal.signal(signal.SIGALRM, old_handler), then the value is returned or
\* the exception goes on to the caller
UnixRestore ==
    /\ pc = "disarmed"
    /\ handler' = old_handler
    /\ guarded' = pending
    /\ pc' = "left"
    /\ UNCHANGED <<rest_vars, behaviour, alarm, old_handler, pending>>

NextTimeout ==
    \/ WindowsCall
    \/ UnixInstallHandler
    \/ UnixArm
    \/ UnixEnterTry
    \/ UnixCallableEnds
    \/ UnixAlarmFires
    \/ UnixDisarm
    \/ UnixRestore

SpecTimeout == InitTimeout /\ [][NextTimeout]_vars

---------------------------------------------------------------------------
(* The adapters that shell out to a tool (SpecTool).                       *)

SyntaxResult(valid, error_message) == [valid |-> valid, error_message |-> error_message]

\* how a check_syntax call is left: kind "return" with a SyntaxResult or
\* "raise"; tmp: the transient source file exists afterwards
Checked(kind, value, tmp) == [kind |-> kind, value |-> value, tmp |-> tmp]

\* What happens to the tool during one check_syntax call: the runtime is not
\* found by shutil.which ("no_runtime"), the transient file is created but
\* writing the source to it raises ("write_fails", UnicodeEncodeError for a
\* lone surrogate), the executable is missing at spawn ("spawn_not_found",
\* FileNotFoundError), the spawn or the decoding of the output raises another
\* error ("spawn_fails", PermissionError), the tool exceeds its time limit,
\* exits with status 0 or with another status.
ToolRuns ==
    {[run |-> r, value |-> None, error |-> None] :
        r \in {"no_runtime", "write_fails", "spawn_not_found", "spawn_fails", "timeout",
               "exit_zero", "exit_nonzero"}}

NodeNotFound == "Node.js not found. Install from https://nodejs.org/"
TsxNotFound == "tsx not found. Install with: npm install -g tsx"
SyntaxCheckTimedOut == "Syntax check timed out"

\* the body shared by the two check_syntax methods, not_found being the
\* adapter's message for a missing runtime
ToolCheckSyntax(run, not_found) ==
    CASE run.run = "no_runtime" -> Checked("return", SyntaxResult(FALSE, not_found), FALSE)
      [] run.run = "write_fails" -> Checked("raise", Raised("UnicodeEncodeError"), TRUE)
      [] run.run = "spawn_not_found" -> Checked("return", SyntaxResult(FALSE, not_found), TRUE)
      [] run.run = "spawn_fails" -> Checked("raise", Raised("PermissionError"), TRUE)
      [] run.run = "timeout" ->
             Checked("return", SyntaxResult(FALSE, SyntaxCheckTimedOut), FALSE)
      [] run.run = "exit_zero" -> Checked("return", SyntaxResult(TRUE, None), FALSE)
      [] run.run = "exit_nonzero" -> Checked("return", SyntaxResult(FALSE, "{stderr}"), FALSE)

\* faulty variant: the missing executable is not handled at spawn time
JavaScriptLanguage_check_syntax_unhandled(run) ==
    IF run.run = "spawn_not_found" THEN Checked("raise", Raised("FileNotFoundError"), TRUE)
    ELSE ToolCheckSyntax(run, NodeNotFound)

\* JavaScriptLanguage.check_syntax (node --check)
JavaScriptLanguage_check_syntax(run) == ToolCheckSyntax(run, NodeNotFound)

\* TypeScriptLanguage.check_syntax (tsx)
TypeScriptLanguage_check_syntax(run) == ToolCheckSyntax(run, TsxNotFound)

\* node --check file.js parses the file and runs none of it
NodeCheckRunsTopLevel == FALSE

\* tsx file.ts transforms the file and, when it parses, runs it as a script:
\* the top-level statements are run whenever tsx got as far as an exit
\* status 0, a non-zero status caused by the script or a timeout caused by
\* the script
TsxRunsTopLevel(c, run) ==
    /\ c.syntax_valid
    /\ \/ run.run = "exit_zero"
       \/ run.run = "exit_nonzero" /\ c.top_level \in {"raises", "exits"}
       \/ run.run = "timeout" /\ c.top_level = "hangs"

\* node file.js on the harness, which starts with the candidate source: it
\* is run whenever node was spawned on the file
NodeRunsTopLevel(c, n) ==
    /\ c.has_method
    /\ n.run \notin {"no_node", "tempfile_error", "spawn_not_found"}

ToolCodes == {Code(TRUE, TRUE, 1, "defines", "ok"), Code(TRUE, FALSE, 0, "defines", "ok")}

InitTool ==
    /\ pc = "tool"
    /\ tool \in {"js_check_syntax", "ts_check_syntax", "js_run_test_case"}
    /\ tool_run \in (IF tool = "js_run_test_case" THEN NodeRuns ELSE ToolRuns)
    /\ tool_result = None
    /\ tmp_exists = FALSE
    /\ top_level_ran = FALSE
    /\ code \in ToolCodes
    /\ platform = "unix"
    /\ adapter = IF tool = "ts_check_syntax" THEN "typescript" ELSE "javascript"
    /\ timeout = execution_timeout
    /\ examples = <<>>
    /\ test_cases = <<>>
    /\ expected_outputs = <<>>
    /\ result = VerificationResult(FALSE, None)
    /\ tested_inputs = {}
    /\ idx = 0
    /\ input_args = <<PyInt(1)>>
    /\ expected \in {None, PyInt(1), PyInt(2)}
    /\ outcome = NoOutcome
    /\ cmp_expected = None /\ cmp_actual = None /\ cmp_result = FALSE
    /\ CliIdle
    /\ ParserIdle
    /\ RegistryIdle
    /\ EntryPointIdle
    /\ GuardedIdle

\* JavaScriptLanguage().check_syntax(code)
JsCheckSyntax ==
    /\ pc = "tool"
    /\ tool = "js_check_syntax"
    /\ tool_result' = JavaScriptLanguage_check_syntax(tool_run)
    /\ tmp_exists' = tool_result'.tmp
    /\ top_level_ran' = NodeCheckRunsTopLevel
    /\ pc' = "tool_done"
    /\ UNCHANGED <<inputs, result, tested_inputs, idx, input_args, expected, outcome,
                   compare_vars, cli_vars, parser_vars, registry_vars, entry_point_vars,
                   guarded_vars, tool, tool_run>>

\* TypeScriptLanguage().check_syntax(code)
TsCheckSyntax ==
    /\ pc = "tool"
    /\ tool = "ts_check_syntax"
    /\ tool_result' = TypeScriptLanguage_check_syntax(tool_run)
    /\ tmp_exists' = tool_result'.tmp
    /\ top_level_ran' = TsxRunsTopLevel(code, tool_run)
    /\ pc' = "tool_done"
    /\ UNCHANGED <<inputs, result, tested_inputs, idx, input_args, expected, outcome,
                   compare_vars, cli_vars, parser_vars, registry_vars, entry_point_vars,
                   guarded_vars, tool, tool_run>>

\* JavaScriptLanguage().run_test_case(code, input_args, expected_output)
JsRunTestCase ==
    /\ pc = "tool"
    /\ tool = "js_run_test_case"
    /\ outcome' = JavaScriptLanguage_run(code, input_args, expected, timeout, tool_run)
    /\ tmp_exists' = JavaScriptLanguage_run_tmp(code, tool_run)
    /\ top_level_ran' = NodeRunsTopLevel(code, tool_run)
    /\ pc' = "tool_done"
    /\ UNCHANGED <<inputs, result, tested_inputs, idx, input_args, expected,
                   compare_vars, cli_vars, parser_vars, registry_vars, entry_point_vars,
                   guarded_vars, tool, tool_run, tool_result>>

NextTool == JsCheckSyntax \/ TsCheckSyntax \/ JsRunTestCase

SpecTool == InitTool /\ [][NextTool]_vars

---------------------------------------------------------------------------
(* check_syntax of the three adapters on any candidate (SpecSyntax).       *)

ToolRun(r) == [run |-> r, value |-> None, error |-> None]

\* PythonLanguage.check_syntax: ast.parse in the calling process
PythonLanguage_check_syntax(c) ==
    IF c.syntax_valid THEN Checked("return", SyntaxResult(TRUE, None), FALSE)
    ELSE Checked("return", SyntaxResult(FALSE, "{e.msg}"), FALSE)

\* ast.parse builds the tree and runs none of the source
AstParseRunsTopLevel == FALSE

\* what the environment can do to a tool-based check, whatever the source
ToolFailures == {"no_runtime", "spawn_not_found", "timeout"}

\* what the tool itself does with the source when nothing else goes wrong:
\* node --check exits by the syntax alone; tsx exits non-zero on a syntax
\* error and otherwise runs the script, which ends, throws, calls
\* process.exit with a status or does not end within the time limit
ToolVerdicts(t, c) ==
    IF t = "js_check_syntax"
    THEN {IF c.syntax_valid THEN "exit_zero" ELSE "exit_nonzero"}
    ELSE IF ~c.syntax_valid THEN {"exit_nonzero"}
    ELSE CASE c.top_level \in {"defines", "defines_prebound", "no_class"} -> {"exit_zero"}
           [] c.top_level = "raises" -> {"exit_nonzero"}
           [] c.top_level = "exits" -> {"exit_zero", "exit_nonzero"}
           [] c.top_level = "hangs" -> {"timeout"}

InitSyntax ==
    /\ pc = "tool"
    /\ tool \in {"py_check_syntax", "js_check_syntax", "ts_check_syntax"}
    /\ code \in CodeSet
    /\ tool_run \in (IF tool = "py_check_syntax" THEN {ToolRun("in_process")}
                     ELSE {ToolRun(r) : r \in ToolFailures \cup ToolVerdicts(tool, code)})
    /\ tool_result = None
    /\ tmp_exists = FALSE
    /\ top_level_ran = FALSE
    /\ platform = "unix"
    /\ adapter = CASE tool = "py_check_syntax" -> "python"
                   [] tool = "js_check_syntax" -> "javascript"
                   [] tool = "ts_check_syntax" -> "typescript"
    /\ timeout = execution_timeout
    /\ examples = <<>>
    /\ test_cases = <<>>
    /\ expected_outputs = <<>>
    /\ result = VerificationResult(FALSE, None)
    /\ tested_inputs = {}
    /\ idx = 0
    /\ input_args = <<>>
    /\ expected = None
    /\ outcome = NoOutcome
    /\ cmp_expected = None /\ cmp_actual = None /\ cmp_result = FALSE
    /\ CliIdle
    /\ ParserIdle
    /\ RegistryIdle
    /\ EntryPointIdle
    /\ GuardedIdle

\* PythonLanguage().check_syntax(code)
PyCheckSyntax ==
    /\ pc = "tool"
    /\ tool = "py_check_syntax"
    /\ tool_result' = PythonLanguage_check_syntax(code)
    /\ tmp_exists' = tool_result'.tmp
    /\ top_level_ran' = AstParseRunsTopLevel
    /\ pc' = "tool_done"
    /\ UNCHANGED <<inputs, result, tested_inputs, idx, input_args, expected, outcome,
                   compare_vars, cli_vars, parser_vars, registry_vars, entry_point_vars,
                   guarded_vars, tool, tool_run>>

NextSyntax == PyCheckSyntax \/ JsCheckSyntax \/ TsCheckSyntax

SpecSyntax == InitSyntax /\ [][NextSyntax]_vars

---------------------------------------------------------------------------
(* The worker-thread strategy, thread by thread (SpecWorkers): a sequence  *)
(* of guarded calls of one caller, each with its worker, the workers of    *)
(* earlier calls still running.                                            *)

MaxGuardedCalls == 2

\* what the callable of call k does when its worker gets to run it to the
\* end: it returns k, raises an Exception, raises SystemExit, or never ends
WorkerBehaviours(k) ==
    {Behaviour("returns", PyInt(k), "", "none"),
     Behaviour("raises", None, "boom", "none"),
     Behaviour("exits", None, "", "none"),
     Behaviour("slow", None, "", "hangs")}

\* a thread: what its callable does, and whether it is "running", has "put"
\* its outcome in a queue, or is "dead" (is_alive() is False)
Worker(b, state) == [b |-> b, state |-> state]

\* a pair of queue.Queue objects, oldest item first
Queues(results, exceptions) == [results |-> results, exceptions |-> exceptions]

\* faulty variant: one pair of queues shared by all the calls
QueueOf_shared(k) == 1

\* result_queue / exception_queue are locals of the call: call k has pair k
QueueOf(k) == k

TimedOut == Guarded("timeout", None, "", TRUE, FALSE)

caller_rest ==
    <<inputs, result, tested_inputs, idx, input_args, expected, outcome, compare_vars,
      parser_vars, registry_vars, entry_point_vars, tool_vars,
      behaviour, alarm, handler, old_handler, pending, guarded, cli_vars>>

InitWorkers ==
    /\ pc = "call"
    /\ workers = <<>>
    /\ queues = [q \in 1..MaxGuardedCalls |-> Queues(<<>>, <<>>)]
    /\ reports = <<>>
    /\ behaviour = None /\ alarm = FALSE /\ handler = "SIG_DFL"
    /\ old_handler = None /\ pending = None /\ guarded = None
    /\ code = Code(TRUE, TRUE, 1, "defines", "ok")
    /\ platform = "win32"
    /\ adapter = "core"
    /\ timeout \in Timeouts
    /\ examples = <<>>
    /\ test_cases = <<>>
    /\ expected_outputs = <<>>
    /\ result = VerificationResult(FALSE, None)
    /\ tested_inputs = {}
    /\ idx = 0
    /\ input_args = <<>>
    /\ expected = None
    /\ outcome = NoOutcome
    /\ cmp_expected = None /\ cmp_actual = None /\ cmp_result = FALSE
    /\ CliIdle
    /\ ParserIdle
    /\ RegistryIdle
    /\ EntryPointIdle
    /\ ToolIdle

\* the queues created, thread = threading.Thread(target=wrapper);
\* thread.start() (lines 36-48)
StartWorker ==
    /\ pc = "call"
    /\ Len(workers) < MaxGuardedCalls
    /\ \E b \in WorkerBehaviours(Len(workers) + 1) :
          workers' = Append(workers, Worker(b, "running"))
    /\ pc' = "joining"
    /\ UNCHANGED <<caller_rest, queues, reports>>

\* wrapper of thread k, to the end of its try statement (lines 40-44): the
\* value is put in the result queue, an Exception in the exception queue, a
\* SystemExit leaves the thread
WorkerRuns(k) ==
    /\ workers[k].state = "running"
    /\ workers[k].b.b # "slow"
    /\ workers' = [workers EXCEPT ![k].state = IF workers[k].b.b = "exits" THEN "dead"
                                               ELSE "put"]
    /\ queues' =
           CASE workers[k].b.b = "returns" ->
                    [queues EXCEPT ![QueueOf(k)].results = Append(@, workers[k].b.value)]
             [] workers[k].b.b = "raises" ->
                    [queues EXCEPT ![QueueOf(k)].exceptions = Append(@, workers[k].b.message)]
             [] OTHER -> queues
    /\ UNCHANGED <<caller_rest, pc, reports>>

\* thread k ends after its put
WorkerEnds(k) ==
    /\ workers[k].state = "put"
    /\ workers' = [workers EXCEPT ![k].state = "dead"]
    /\ UNCHANGED <<caller_rest, pc, queues, reports>>

\* thread.join(timeout=timeout) returns: the thread is dead, or the time
\* limit has passed (line 49)
JoinReturns ==
    /\ pc = "joining"
    /\ pc' = "joined"
    /\ UNCHANGED <<caller_rest, workers, queues, reports>>

\* lines 51-60: TimeoutError when the thread is alive, else the exception
\* got from the exception queue, else the value got from the result queue,
\* else None
LeaveCall ==
    /\ pc = "joined"
    /\ LET k == Len(workers)
           q == queues[QueueOf(k)]
       IN IF workers[k].state # "dead"
          THEN /\ reports' = Append(reports, TimedOut)
               /\ UNCHANGED queues
          ELSE IF q.exceptions # <<>>
          THEN /\ reports' = Append(reports, Guarded("exception", None, Head(q.exceptions),
                                                     FALSE, TRUE))
               /\ queues' = [queues EXCEPT ![QueueOf(k)].exceptions = Tail(@)]
          ELSE IF q.results # <<>>
          THEN /\ reports' = Append(reports, Guarded("value", Head(q.results), "",
                                                     FALSE, FALSE))
               /\ queues' = [queues EXCEPT ![QueueOf(k)].results = Tail(@)]
          ELSE /\ reports' = Append(reports, Guarded("value", None, "", FALSE, TRUE))
               /\ UNCHANGED queues
    /\ pc' = "call"
    /\ UNCHANGED <<caller_rest, workers>>

NextWorkers ==
    \/ StartWorker
    \/ \E k \in 1..Len(workers) : WorkerRuns(k)
    \/ \E k \in 1..Len(workers) : WorkerEnds(k)
    \/ JoinReturns
    \/ LeaveCall

SpecWorkers == InitWorkers /\ [][NextWorkers]_vars

---------------------------------------------------------------------------
(* The verification step of the two command-line workflows (SpecWorkflow): *)
(* verify_solution_with_progress on the report verify_solution gave back,  *)
(* and what run_workflow and process_batch_item do with its answer.        *)

MaxTests == 3

\* a value a Python function gave back
Returned(value) == [t |-> "returned", value |-> value]

\* the report of a solution with valid syntax whose executed tests ended as
\* the flags say, one flag per test
ReportOf(flags) ==
    [syntax_valid |-> TRUE, syntax_error |-> None,
     tests_run |-> Len(flags),
     tests_passed |-> Cardinality({k \in 1..Len(flags) : flags[k]}),
     test_results |-> [k \in 1..Len(flags) |->
                          TestResult(flags[k], <<>>, None, None, None)]]

\* what verify_solution hands to the workflow
WorkflowReports ==
    {VerificationResult(FALSE, None)} \cup {ReportOf(f) : f \in SeqsUpTo(BOOLEAN, MaxTests)}

\* the workflow that verifies: the interactive one with the answer its user
\* gives to a confirmation, or a batch item with --skip-verification
Workflow(kind, skip_verification, answer) ==
    [kind |-> kind, skip_verification |-> skip_verification, answer |-> answer]

Workflows ==
    {Workflow("run_workflow", FALSE, a) : a \in BOOLEAN}
        \cup {Workflow("process_batch_item", s, FALSE) : s \in BOOLEAN}

\* verify_solution_with_progress, from the report on: False on a syntax
\* error, otherwise result.syntax_valid, whatever the tests did
verify_solution_with_progress(r) ==
    IF ~r.syntax_valid THEN FALSE ELSE r.syntax_valid

InitWorkflow ==
    /\ pc = "verify"
    /\ workflow \in Workflows
    /\ result \in WorkflowReports
    /\ verified = Unset
    /\ issues_reported = FALSE
    /\ batch_args = None /\ batch_items = <<>> /\ batch_results = <<>>
    /\ summary = None
    /\ code = Code(TRUE, TRUE, 1, "defines", "ok")
    /\ platform = "unix"
    /\ adapter = "core"
    /\ timeout = execution_timeout
    /\ examples = <<>>
    /\ test_cases = <<>>
    /\ expected_outputs = <<>>
    /\ tested_inputs = {}
    /\ idx = 0
    /\ input_args = <<>>
    /\ expected = None
    /\ outcome = NoOutcome
    /\ cmp_expected = None /\ cmp_actual = None /\ cmp_result = FALSE
    /\ ParserIdle
    /\ RegistryIdle
    /\ EntryPointIdle
    /\ GuardedIdle
    /\ ToolIdle

workflow_rest ==
    <<inputs, result, tested_inputs, idx, input_args, expected, outcome, compare_vars,
      parser_vars, registry_vars, entry_point_vars, guarded_vars, tool_vars,
      workflow, batch_args, batch_items, batch_results, summary>>

\* the call of verify_solution_with_progress in either workflow
VerifySolutionWithProgress ==
    /\ pc = "verify"
    /\ ~workflow.skip_verification
    /\ verified' = Returned(verify_solution_with_progress(result))
    /\ pc' = "verified"
    /\ UNCHANGED <<workflow_rest, issues_reported>>

\* process_batch_item: if not skip_verification
SkipVerification ==
    /\ pc = "verify"
    /\ workflow.skip_verification
    /\ pc' = "generate"
    /\ UNCHANGED <<workflow_rest, verified, issues_reported>>

\* run_workflow: on False, logger.confirm("Continue despite verification
\* issues?"), and return False unless the user says yes
RunWorkflowReacts ==
    /\ pc = "verified"
    /\ workflow.kind = "run_workflow"
    /\ IF ~verified.value
       THEN /\ issues_reported' = TRUE
            /\ pc' = IF workflow.answer THEN "generate" ELSE "aborted"
       ELSE /\ pc' = "generate"
            /\ UNCHANGED issues_reported
    /\ UNCHANGED <<workflow_rest, verified>>

\* process_batch_item: on False, logger.warning("Verification issues
\* detected, continuing anyway...")
BatchItemReacts ==
    /\ pc = "verified"
    /\ workflow.kind = "process_batch_item"
    /\ issues_reported' = ~verified.value
    /\ pc' = "generate"
    /\ UNCHANGED <<workflow_rest, verified>>

\* the documentation is generated and saved
GenerateDocs ==
    /\ pc = "generate"
    /\ pc' = "documented"
    /\ UNCHANGED <<workflow_rest, verified, issues_reported>>

NextWorkflow ==
    \/ VerifySolutionWithProgress
    \/ SkipVerification
    \/ RunWorkflowReacts
    \/ BatchItemReacts
    \/ GenerateDocs

SpecWorkflow == InitWorkflow /\ [][NextWorkflow]_vars

---------------------------------------------------------------------------
(* run_batch (SpecBatch): the items of the batch file are processed in a   *)
(* for loop, each inside try / except, and display_batch_summary counts    *)
(* the results afterwards.  An item is a URL and what process_batch_item   *)
(* does for it: return a successful BatchResult ("ok"), return a failed    *)
(* one ("fail"), raise an Exception ("crash"), or be interrupted by the    *)
(* user with KeyboardInterrupt ("interrupt").                              *)

MaxBatch == 3

BatchItem(url, does) == [url |-> url, does |-> does]

BatchResult(url, success) == [url |-> url, success |-> success]

BatchItems == {BatchItem(u, d) : u \in {"url_a", "url_b"},
                                 d \in {"ok", "fail", "crash", "interrupt"}}

\* args.continue_on_error: --continue-on-error, action="store_true"
BatchArgs == {[continue_on_error |-> c] : c \in BOOLEAN}

\* faulty variant: a failed item never stops the batch
StopsBatch_never(batch_result) == FALSE

\* if not result.success and not args.continue_on_error: break
StopsBatch(batch_result) ==
    ~batch_result.success /\ ~batch_args.continue_on_error

\* display_batch_summary: the counts it logs
display_batch_summary(results_list, total_items) ==
    [total |-> total_items,
     successful |-> Cardinality({k \in 1..Len(results_list) : results_list[k].success}),
     failed |-> Cardinality({k \in 1..Len(results_list) : ~results_list[k].success}),
     skipped |-> total_items - Len(results_list)]

InitBatch ==
    /\ pc = "start"
    /\ batch_args \in BatchArgs
    /\ batch_items \in SeqsUpTo(BatchItems, MaxBatch)
    /\ batch_results = <<>>
    /\ summary = None
    /\ idx = 0
    /\ workflow = None /\ verified = Unset /\ issues_reported = FALSE
    /\ code = Code(TRUE, TRUE, 1, "defines", "ok")
    /\ platform = "unix"
    /\ adapter = "core"
    /\ timeout = execution_timeout
    /\ examples = <<>>
    /\ test_cases = <<>>
    /\ expected_outputs = <<>>
    /\ result = VerificationResult(FALSE, None)
    /\ tested_inputs = {}
    /\ input_args = <<>>
    /\ expected = None
    /\ outcome = NoOutcome
    /\ cmp_expected = None /\ cmp_actual = None /\ cmp_result = FALSE
    /\ ParserIdle
    /\ RegistryIdle
    /\ EntryPointIdle
    /\ GuardedIdle
    /\ ToolIdle

batch_rest ==
    <<inputs, result, tested_inputs, input_args, expected, outcome, compare_vars,
      parser_vars, registry_vars, entry_point_vars, guarded_vars, tool_vars,
      workflow, verified, issues_reported, batch_args, batch_items>>

\* if not items: return; otherwise results = [] and the loop starts
StartBatch ==
    /\ pc = "start"
    /\ pc' = IF batch_items = <<>> THEN "done" ELSE "loop"
    /\ UNCHANGED <<batch_rest, idx, batch_results, summary>>

\* one iteration whose process_batch_item returns: the result is appended,
\* and a failure stops the loop unless --continue-on-error was given
ItemReturns ==
    /\ pc = "loop"
    /\ idx < Len(batch_items)
    /\ LET item == batch_items[idx + 1]
           batch_result == BatchResult(item.url, item.does = "ok")
       IN  /\ item.does \in {"ok", "fail"}
           /\ idx' = idx + 1
           /\ batch_results' = Append(batch_results, batch_result)
           /\ pc' = IF StopsBatch(batch_result) THEN "summary" ELSE "loop"
    /\ UNCHANGED <<batch_rest, summary>>

\* except Exception: a failed result is appended for the item, and the
\* loop stops unless --continue-on-error was given
ItemCrashes ==
    /\ pc = "loop"
    /\ idx < Len(batch_items)
    /\ LET item == batch_items[idx + 1]
           batch_result == BatchResult(item.url, FALSE)
       IN  /\ item.does = "crash"
           /\ idx' = idx + 1
           /\ batch_results' = Append(batch_results, batch_result)
           /\ pc' = IF StopsBatch(batch_result) THEN "summary" ELSE "loop"
    /\ UNCHANGED <<batch_rest, summary>>

\* except KeyboardInterrupt: break, nothing is appended
ItemInterrupted ==
    /\ pc = "loop"
    /\ idx < Len(batch_items)
    /\ batch_items[idx + 1].does = "interrupt"
    /\ idx' = idx + 1
    /\ pc' = "summary"
    /\ UNCHANGED <<batch_rest, batch_results, summary>>

\* the for loop has no item left
LoopEnds ==
    /\ pc = "loop"
    /\ idx = Len(batch_items)
    /\ pc' = "summary"
    /\ UNCHANGED <<batch_rest, idx, batch_results, summary>>

\* display_batch_summary(logger, results, len(items))
DisplayBatchSummary ==
    /\ pc = "summary"
    /\ summary' = display_batch_summary(batch_results, Len(batch_items))
    /\ pc' = "done"
    /\ UNCHANGED <<batch_rest, idx, batch_results>>

NextBatch ==
    \/ StartBatch
    \/ ItemReturns
    \/ ItemCrashes
    \/ ItemInterrupted
    \/ LoopEnds
    \/ DisplayBatchSummary

SpecBatch == InitBatch /\ [][NextBatch]_vars

---------------------------------------------------------------------------
(* Properties.                                                             *)

\* an example carries both a non-empty input and a non-empty output
Usable(e) == e.input # <<>> /\ e.output # <<>>

\* tables <<x, f(x)>> of the parsed arguments and expected output of every
\* example, the parsed arguments of every chunk of lines, and the dedup key
\* of each of them
Lookup(table, x) == (CHOOSE p \in table : p[1] = x)[2]

ExampleArgsTable == {<<e, _parse_test_input(e.input)>> : e \in ExampleSet}

ExampleExpectedTable == {<<e, _parse_expected_output(e.output)>> : e \in ExampleSet}

ChunkArgsTable ==
    {<<ls, _parse_test_input(join(<<"\n">>, ls))>> : ls \in SeqsUpTo(LineSet, MaxParams)}

KeyTable ==
    {<<args, input_key(args)>> :
        args \in {p[2] : p \in ExampleArgsTable} \cup {p[2] : p \in ChunkArgsTable}}

KeyOf(args) == Lookup(KeyTable, args)

Key(r) == KeyOf(r.input_args)

\* the tests of the usable examples, in the order the examples were given
ExampleTests ==
    LET us == SelectSeq(examples, Usable)
    IN [i \in 1..Len(us) |->
           [args |-> Lookup(ExampleArgsTable, us[i]),
            expected |-> Lookup(ExampleExpectedTable, us[i])]]

ExampleKeys ==
    LET tests == ExampleTests
    IN {KeyOf(tests[i].args) : i \in 1..Len(tests)}

\* number of supplementary chunks that have an expected output
ChunkCount ==
    LET n == _count_method_params(code)
        chunks == IF n > 0 THEN Len(test_cases) \div n ELSE 0
    IN IF expected_outputs = <<>> \/ test_cases = <<>> \/ n <= 0 THEN 0
       ELSE IF chunks < Len(expected_outputs) THEN chunks ELSE Len(expected_outputs)

ChunkArgs(g) ==
    LET n == _count_method_params(code)
    IN Lookup(ChunkArgsTable, SubSeq(test_cases, (g - 1) * n + 1, g * n))

\* the chunks from g on whose key is not in seen and not the key of an
\* earlier chunk, in chunk order
RECURSIVE NonDuplicateChunks(_, _)
NonDuplicateChunks(g, seen) ==
    IF g > ChunkCount THEN <<>>
    ELSE LET args == ChunkArgs(g)
             key == KeyOf(args)
         IN IF key \in seen THEN NonDuplicateChunks(g + 1, seen)
            ELSE <<[args |-> args, expected |-> expected_outputs[g]]>>
                 \o NonDuplicateChunks(g + 1, seen \cup {key})

PlannedTests ==
    LET tests == ExampleTests
    IN tests \o NonDuplicateChunks(1, {KeyOf(tests[i].args) : i \in 1..Len(tests)})

Count(v, xs) == Cardinality({k \in 1..Len(xs) : xs[k] = v})

SameBag(xs, ys) ==
    \A v \in {xs[k] : k \in 1..Len(xs)} \cup {ys[k] : k \in 1..Len(ys)} :
        Count(v, xs) = Count(v, ys)

Orderable(xs) ==
    \A j, k \in 1..Len(xs) : j # k => PyCompare(xs[j], xs[k]) # "err"

\* C1: when check_syntax reports the source invalid, no test case is ever
\* executed, whatever examples, lines and expected outputs are supplied, and
\* the returned report has syntax_valid = False, tests_run = 0,
\* tests_passed = 0 and an empty test_results.
C1_NoTestsAfterSyntaxFailure ==
    ~code.syntax_valid =>
        /\ pc \in {"start", "done"}
        /\ outcome = NoOutcome
        /\ ~result.syntax_valid
        /\ result.tests_run = 0
        /\ result.tests_passed = 0
        /\ result.test_results = <<>>
        /\ (pc = "done" => result.syntax_error # None)

C1_Witness ==
    /\ pc = "done"
    /\ ~code.syntax_valid
    /\ \E i \in 1..Len(examples) : Usable(examples[i])
    /\ test_cases # <<>>
    /\ expected_outputs # <<>>

\* C2: in every state reached while run_test_cases builds a report, and in
\* every returned report, 0 <= tests_passed <= tests_run.
C2_CounterInvariant ==
    /\ 0 <= result.tests_passed
    /\ result.tests_passed <= result.tests_run

C2_Witness ==
    /\ pc = "done"
    /\ result.tests_run = 2
    /\ result.tests_passed = 1

\* C3: no exception raised by candidate code escapes: whether the candidate
\* raises while the source is defined, while Solution is instantiated or
\* while the entry point runs, run_test_case returns a TestResult with
\* passed = False and a non-empty error, and run_test_cases returns a report
\* instead of raising.
C3_NoCandidateExceptionEscapes ==
    /\ pc # "raised"
    /\ outcome.raised_in # "none" =>
           /\ outcome.kind = "return"
           /\ ~outcome.test_result.passed
           /\ outcome.test_result.error # None
           /\ outcome.test_result.error.text # ""

\* C4: when the guarded invocation of the entry point has not returned
\* within the timeout T, run_test_case returns (it neither hangs nor raises)
\* a TestResult with passed = False, actual = None and the error text
\* 'Execution timed out after Ts'.
C4_TimeoutIsReported ==
    outcome.late =>
        /\ pc = "returned"
        /\ outcome.kind = "return"
        /\ outcome.test_result = FailedResult(input_args, expected, TimeoutText(timeout))

\* C5: a timeout is scoped to one test: a test whose entry point is still
\* running at its deadline is recorded as one failing TestResult, counted in
\* tests_run, and the tests after it are still executed; a slow test never
\* aborts the run.
C5_TimeoutScopedToOneTest ==
    outcome.late =>
        /\ pc # "hung"
        /\ outcome.kind = "return"
        /\ ~outcome.test_result.passed
        /\ (pc = "done" => /\ Len(result.test_results) = Len(PlannedTests)
                           /\ result.tests_run = Len(PlannedTests))

\* C6: every TestResult returned by a run_test_case (core verifier, Python,
\* JavaScript or TypeScript adapter) whose error is not None has
\* passed = False.
C6_ErrorImpliesFailed ==
    pc = "returned" =>
        (outcome.test_result.error # None => ~outcome.test_result.passed)

C6_Witness ==
    /\ pc = "returned"
    /\ adapter = "javascript"
    /\ expected = None
    /\ outcome.test_result.error # None

C9_AllPassed ==
    LET rs == result.test_results
    IN /\ all_passed(result) <=>
              (result.syntax_valid /\ result.tests_run > 0
               /\ result.tests_passed = result.tests_run)
       /\ pc = "done" =>
              (all_passed(result) <=>
                  (code.syntax_valid /\ Len(rs) > 0 /\ \A i \in 1..Len(rs) : rs[i].passed))
       /\ (result.tests_run = 0 => ~all_passed(result))
       /\ (~code.syntax_valid => ~all_passed(result))

C9_Witness ==
    /\ pc = "done"
    /\ all_passed(result)
    /\ result.tests_run = 2

\* C10 as stated: _compare_results(expected, actual) is true iff expected
\* equals actual, or both are sequences of the same length whose sorted forms
\* are equal.
C10_AnySequence ==
    pc = "compared" =>
        (cmp_result <=>
            \/ cmp_expected = cmp_actual
            \/ /\ IsSequence(cmp_expected) /\ IsSequence(cmp_actual)
               /\ Len(Elems(cmp_expected)) = Len(Elems(cmp_actual))
               /\ sorted(Elems(cmp_expected)).ok /\ sorted(Elems(cmp_actual)).ok
               /\ sorted(Elems(cmp_expected)).items = sorted(Elems(cmp_actual)).items)

\* C10, amended: _compare_results(expected, actual) is true iff expected
\* equals actual, or both are lists of the same length whose sorted forms are
\* equal. Equal values always pass; two lists whose elements can be ordered
\* pass iff they are equal as multisets, so lists of different length fail;
\* two lists with elements that cannot be ordered pass only when equal; any
\* other pair of values (strings, tuples, scalars) passes only when equal.
C10_ListsOnly ==
    pc = "compared" =>
        LET e == cmp_expected
            a == cmp_actual
        IN /\ (e = a => cmp_result)
           /\ IsList(e) /\ IsList(a) /\ Orderable(e.items) /\ Orderable(a.items) =>
                  (cmp_result <=> SameBag(e.items, a.items))
           /\ IsList(e) /\ IsList(a) /\ Len(e.items) # Len(a.items) => ~cmp_result
           /\ IsList(e) /\ IsList(a) /\ ~(Orderable(e.items) /\ Orderable(a.items)) =>
                  (cmp_result <=> e = a)
           /\ ~(IsList(e) /\ IsList(a)) => (cmp_result <=> e = a)

C10_Witness ==
    /\ pc = "compared"
    /\ cmp_result
    /\ cmp_expected # cmp_actual
    /\ Len(cmp_expected.items) = 3

\* a value text of the claim: JSON-compatible, no '=', no comma outside brackets
JsonCompatible(v) ==
    /\ json_loads(v).ok
    /\ ~Contains(v, "=")
    /\ \A k \in 1..Len(v) : v[k] = "," => Depth(v, k) > 0

\* C11: for JSON-compatible value texts v1..vn the assignment-list block
\* 'a1 = v1, ..., an = vn' and the block with one value per line are parsed by
\* test_parser._parse_test_input to the same sequence, the parsed values in
\* order.
C11_DialectsAgree ==
    (pc = "parsed_input" /\ \A k \in 1..Len(parse_values) : JsonCompatible(parse_values[k]))
        => /\ parse_result = test_parser_parse_test_input(AssignmentBlock(parse_values))
           /\ parse_result = test_parser_parse_test_input(LineBlock(parse_values))
           /\ parse_result = [k \in 1..Len(parse_values) |-> json_loads(parse_values[k]).value]

\* C12: no parsing function raises, whatever the text: a token both parsers
\* reject comes back as the raw trimmed string.
C12_ParserNeverRaises ==
    /\ pc \in {"parsed_input", "parsed_verifier_input"} => ~ArgsRaised(parse_result)
    /\ pc \in {"parsed_value", "parsed_output", "parsed_verifier_output"}
           => parse_result.t # "raise"

\* C13: a Python solution that uses the pre-bound names (List, Dict,
\* Optional, defaultdict, deque, inf, ...) without importing them is defined
\* and executed, through verifier.run_test_case and through
\* PythonLanguage.run_test_case alike: the call does not end with the class
\* not extracted nor with the NameError of such a name.
C13_PreboundNamesResolve ==
    (pc = "returned" /\ adapter \in {"core", "python"})
        => /\ code.top_level = "defines_prebound"
                => outcome.test_result.error # ErrorText("Could not extract Solution class")
           /\ outcome.test_result.error # ErrorText(NameErrorText)

\* C14: verify raises instead of returning a report only when the requested
\* language resolves to no adapter; with a language that resolves (here the
\* reference language, the only one verify_solution runs) every call ends
\* with a report.
C14_RaisesOnlyForUnsupportedLanguage ==
    pc = "raised" => adapter \notin Adapters

\* the built-in adapter that declares a slug, None when none does
BuiltIn(slug) ==
    CASE slug \in {"python3", "python"} -> PythonLanguage
      [] slug = "javascript" -> JavaScriptLanguage
      [] slug = "typescript" -> TypeScriptLanguage
      [] OTHER -> None

\* the slugs some registered adapter declares
DeclaredSlugs ==
    UNION {{p[2].slug} \cup {p[2].leetcode_slugs[k] : k \in 1..Len(p[2].leetcode_slugs)} :
              p \in _registry}

\* C15: after any sequence of register() and lookup calls, get_language(s)
\* returned the built-in adapter for each built-in slug and alias and None
\* for a slug that no registered adapter declares, and default_language()
\* returned the Python adapter, also when a custom adapter was registered
\* before the first lookup.
C15_BuiltInsAlwaysResolve ==
    calls # <<>> =>
        LET last == calls[Len(calls)]
        IN /\ (last[1] = "get_language" /\ BuiltIn(last[2]) # None)
                  => returned = BuiltIn(last[2])
           /\ (last[1] = "get_language" /\ last[2] \notin DeclaredSlugs)
                  => returned = None
           /\ last[1] = "default_language" => returned = PythonLanguage

\* the method the claim names: the first plain method of public name in the
\* body of class Solution (of the first such class that has one)
EntryPoint ==
    LET classes == source.classes
        Public(k) == {j \in 1..Len(classes[k].body) :
                         /\ classes[k].body[j].kind = "def"
                         /\ classes[k].body[j].name[1] # "_"}
        Candidates == {k \in 1..Len(classes) :
                          classes[k].name = "Solution" /\ Public(k) # {}}
    IN IF ~source.parses \/ Candidates = {} THEN None
       ELSE LET k == CHOOSE c \in Candidates : \A d \in Candidates : c <= d
            IN classes[k].body[CHOOSE j \in Public(k) : \A i \in Public(k) : j <= i]

\* its declared positional parameters, a leading self not counted
DeclaredPositional ==
    LET params == EntryPoint.posonlyargs \o EntryPoint.args
    IN IF params # <<>> /\ params[1] = "self" THEN Len(params) - 1 ELSE Len(params)

\* C16: extract_method_name returns the first method of class Solution whose
\* name does not start with an underscore, None when the source does not
\* parse or has no such class or method; count_method_params returns the
\* number of declared positional parameters of that same method, a leading
\* self not counted, and 0 when no method is found.
C16_SameEntryPoint ==
    /\ method_name # Unset =>
           method_name = (IF EntryPoint = None THEN None ELSE PyStr(EntryPoint.name))
    /\ param_count # Unset =>
           param_count = PyInt(IF EntryPoint = None THEN 0 ELSE DeclaredPositional)

\* C17: once _run_with_timeout_unix is left, by a return, by an exception of
\* the callable or by the alarm firing anywhere between arming and disarming,
\* no alarm is armed and the SIGALRM handler is the one installed before the
\* call.
C17_HandlerRestored ==
    (pc = "left" /\ platform # "win32") => (~alarm /\ handler = old_handler)

\* C18: both strategies give the callable's value when it returns before the
\* deadline, re-raise its failure when it raises before the deadline, and
\* raise the module's TimeoutError when it is still running at the deadline.
C18_SameResultSemantics ==
    pc = "left" =>
        /\ behaviour.b = "returns"
               => (guarded.kind = "value" /\ guarded.value = behaviour.value)
        /\ behaviour.b = "raises"
               => (guarded.kind = "exception" /\ guarded.message = behaviour.message)
        /\ behaviour.b = "exits" => guarded.kind = "exit"
        /\ behaviour.b = "slow" => guarded.kind = "timeout"

\* C19: when a call that shells out (JavaScript check_syntax and
\* run_test_case, TypeScript check_syntax) returns or raises, the transient
\* source file it created no longer exists, whatever happened to the tool.
C19_TransientFileRemoved ==
    pc = "tool_done" => ~tmp_exists

\* what C20 says of a finished check_syntax call, but for its being a result
ToolResultShape ==
    /\ tool_result.value.valid => tool_run.run = "exit_zero"
    /\ tool_run.run \in {"no_runtime", "spawn_not_found"}
           => /\ ~tool_result.value.valid
              /\ tool_result.value.error_message \in {NodeNotFound, TsxNotFound}
    /\ tool_run.run = "timeout"
           => /\ ~tool_result.value.valid
              /\ tool_result.value.error_message = SyntaxCheckTimedOut

EntryPointFound(c) ==
    /\ c.syntax_valid /\ c.has_method
    /\ c.top_level \in {"defines", "defines_prebound"}
    /\ c.ctor = "ok"

\* C21: run_test_case has the same contract in the Python, JavaScript and
\* TypeScript adapters: for a source whose entry point is found the entry
\* point can be invoked with input_args and its value is what the result
\* reports as actual, a result with an actual value has
\* passed = _compare_results(expected_output, actual), and a correct solution
\* can pass.
C21_SameContract ==
    (pc = "returned" /\ adapter \in {"python", "javascript", "typescript"}
     /\ EntryPointFound(code))
        => /\ outcome.test_result.actual # None
                  => outcome.test_result.passed
                         = _compare_results(expected, outcome.test_result.actual)
           /\ \E o \in AdapterRun(adapter, code, input_args, expected, timeout, platform) :
                  /\ o.kind = "return"
                  /\ o.test_result.error = None
                  /\ o.test_result.actual \in ReturnValues
           /\ expected \in ReturnValues
                  => \E o \in AdapterRun(adapter, code, input_args, expected, timeout,
                                         platform) :
                         o.kind = "return" /\ o.test_result.passed

\* C22: check_syntax of every adapter is a parse-only check: the candidate's
\* top-level statements are never run during the check, and a source that is
\* syntactically valid is reported valid whatever its top-level code does,
\* provided the tool was found and answered within its time limit.
C22_ParseOnly ==
    (pc = "tool_done"
     /\ tool \in {"py_check_syntax", "js_check_syntax", "ts_check_syntax"})
        => /\ ~top_level_ran
           /\ (code.syntax_valid /\ tool_run.run \notin ToolFailures)
                  => (tool_result.kind = "return" /\ tool_result.value.valid)

C24_OrchestratorParsesBothDialects ==
    (pc = "parsed_verifier_input" /\ ~ArgsRaised(parse_result))
        => /\ parse_result = test_parser_parse_test_input(parse_text)
           /\ (\A k \in 1..Len(parse_values) : JsonCompatible(parse_values[k]))
                  => input_key(parse_result)
                         = input_key(_parse_test_input(LineBlock(parse_values)))

\* what C25 says of a state: one worker per guarded call begun; a call left
\* otherwise than by TimeoutError had its worker dead, so a worker still
\* running at the check gives TimeoutError; and the outcome reported for
\* call k is TimeoutError or the outcome of the callable of call k itself,
\* whatever the workers of other calls have put in their queues since
WorkersIsolated ==
    /\ Len(workers) = Len(reports) + (IF pc = "call" THEN 0 ELSE 1)
    /\ \A k \in 1..Len(reports) :
          /\ reports[k] # TimedOut => workers[k].state = "dead"
          /\ reports[k] \in {TimedOut, _run_with_timeout_windows(workers[k].b)}

\* what C25 says of a step: an outcome once reported is never changed
ReportsKept ==
    /\ Len(reports') >= Len(reports)
    /\ \A k \in 1..Len(reports) : reports'[k] = reports[k]

\* C25: on the worker-thread strategy each guarded call starts exactly one
\* worker, which is never reused; a call whose worker has not finished at
\* the deadline raises TimeoutError and the caller goes on while the worker
\* keeps running; whatever an abandoned worker returns or raises later, in
\* any interleaving with later guarded calls, changes neither the outcome
\* already reported for its own call nor the outcome of a later call.
C25_AbandonedWorkerIsHarmless == [](WorkersIsolated) /\ [][ReportsKept]_vars

C25_Witness ==
    /\ Len(reports) = 2
    /\ reports[1] = TimedOut
    /\ workers[1].b.b = "returns"
    /\ workers[1].state = "dead"
    /\ queues[QueueOf(1)].results = <<PyInt(1)>>
    /\ reports[2] = Guarded("value", PyInt(2), "", FALSE, FALSE)

\* C26: every run_test_case call with a positive timeout eventually returns
\* a TestResult: candidate code can block in the guarded invocation of the
\* entry point only, so the call on a solution whose top-level code or whose
\* Solution constructor never returns eventually returns a failing result.
C26_EveryCallReturns ==
    (timeout > 0 /\ adapter \in {"core", "python"}
     /\ (code.top_level = "hangs" \/ code.ctor = "hangs"))
        => <>(pc = "returned" /\ ~outcome.test_result.passed)

\* a lookup operation of the registry module
IsLookup(call) ==
    call[1] \in {"get_language", "get_language_by_extension", "list_languages",
                 "default_language"}

\* a first lookup has been made
LookedUp == \E k \in 1..Len(calls) : IsLookup(calls[k])

\* the entries the first lookup is to create
BuiltInEntries == _ensure_registered({})

\* C27: the adapter registry is populated exactly once, on the first lookup
\* (after it the built-in entries are there), and is read-only afterwards:
\* from then on no call adds, removes or replaces an entry, so a slug looked
\* up at two later points gives the same adapter.
C27_PopulatedOnceThenReadOnly ==
    /\ [](LookedUp => BuiltInEntries \subseteq _registry)
    /\ [][LookedUp => _registry' = _registry]_vars

\* C28: verify_solution_with_progress returns True only if verification
\* passed: for a solution with valid syntax of which an executed test failed
\* (tests_passed < tests_run) it returns False, and the documentation is not
\* generated before the workflow has reported the verification issues (the
\* confirmation of run_workflow, the warning of the batch workflow).
C28_FailingTestsAreReported ==
    (verified # Unset /\ result.syntax_valid /\ result.tests_passed < result.tests_run)
        => /\ verified = Returned(FALSE)
           /\ pc \in {"generate", "documented"} => issues_reported

\* the items process_batch_item was called for so far: the first idx ones
Processed == 1..idx

\* an item that ended in a BatchResult with success = False
ItemFailed(k) == batch_items[k].does \in {"fail", "crash"}

\* result k is the result of item k: the results follow the file order, with
\* at most one result per item
InFileOrder ==
    /\ Len(batch_results) <= idx /\ idx <= Len(batch_items)
    /\ \A k \in 1..Len(batch_results) :
           /\ batch_results[k].url = batch_items[k].url
           /\ batch_results[k].success = (batch_items[k].does = "ok")

\* one step processes at most the next item and adds at most its result
OneItemAtATime ==
    /\ idx' \in {idx, idx + 1}
    /\ \/ batch_results' = batch_results
       \/ /\ idx' = idx + 1
          /\ Len(batch_results') = Len(batch_results) + 1
          /\ SubSeq(batch_results', 1, Len(batch_results)) = batch_results

PassedEntries(r) == Cardinality({k \in 1..Len(r.test_results) : r.test_results[k].passed})

\* the counters of the report agree with its list of results
CountersMatch(r) ==
    /\ r.tests_run = Len(r.test_results)
    /\ r.tests_passed = PassedEntries(r)

\* between result.test_results.append(test_result) and the end of the
\* counter updates of the same iteration
MidUpdate == pc \in {"count_example", "count_chunk", "passed_example", "passed_chunk"}

\* C30 as stated: in every state reached while run_test_cases builds a
\* report, and in the returned report, tests_run equals the length of
\* test_results and tests_passed the number of its entries that passed.
C30_CountersMatchInEveryState == CountersMatch(result)

\* C30, amended: the counters agree with test_results in the returned report
\* and in every state of the run outside the three statements that record a
\* test; inside them exactly the result just appended is still uncounted,
\* and the only step that can follow is the next counter update of the same
\* iteration.
C30_CountersMatchBetweenTests ==
    /\ [](/\ ~MidUpdate => CountersMatch(result)
          /\ MidUpdate =>
                 LET n == Len(result.test_results)
                     counted == [result EXCEPT !.test_results = SubSeq(@, 1, n - 1)]
                 IN  /\ n > 0
                     /\ result.test_results[n] = outcome.test_result
                     /\ IF pc \in {"count_example", "count_chunk"}
                        THEN CountersMatch(counted)
                        ELSE /\ result.tests_run = n
                             /\ result.tests_passed = PassedEntries(counted))
    /\ [][/\ pc \in {"append_example", "append_chunk"}
              => pc' \in {"count_example", "count_chunk"}
          /\ pc \in {"count_example", "count_chunk"}
              => pc' \in {"passed_example", "passed_chunk"}
                     /\ result'.tests_run = Len(result'.test_results)
          /\ pc \in {"passed_example", "passed_chunk"}
              => ~MidUpdate' /\ CountersMatch(result')]_vars

\* a returned report with a passed and a failed test, counted 2 and 1
C30_Witness ==
    /\ pc = "done"
    /\ result.tests_run = 2
    /\ result.tests_passed = 1
    /\ Len(result.test_results) = 2

====
